---- MODULE Spec2Model ----
(***************************************************************************)
(* Growth-standard evaluation engine of who-child-growth-standards:        *)
(* dataset selection by age and sex, row lookup with linear interpolation, *)
(* and classification of a measurement into one of eight SD bands.         *)
(*                                                                         *)
(* Every exported function is a pure, synchronous computation.  The state  *)
(* machine therefore holds one call: Init draws the arguments (and the     *)
(* readings the clock will return), one action per exported function       *)
(* applies it and records what it returned or threw.                       *)
(*                                                                         *)
(* Numbers.  A JavaScript number is modelled as an exact rational <<n, d>> *)
(* in lowest terms with d > 0, and not-a-number as <<0, 0>>.  Arithmetic   *)
(* is exact: IEEE-754 rounding of the interpolation is not modelled.       *)
(*                                                                         *)
(* Time.  A Date is modelled as a day number counted from 2020-01-01, with *)
(* the real Gregorian calendar.  Birth dates are at local midnight, so the *)
(* floor of elapsed milliseconds over a week equals the floor of elapsed   *)
(* whole days over seven whatever the time of day of the clock reading.    *)
(***************************************************************************)
EXTENDS Integers, Sequences, FiniteSets, TLC

VARIABLES
    pc,           \* "ready" before the call, "done" after it returned or threw
    op,           \* the exported function that is called
    measurement,  \* weight / length / height argument
    lengthArg,    \* the length argument of evaluateWeightForLength
    data,         \* the table argument, a reference to an array of rows
    entryArg,     \* the row argument of the by-entry evaluators, <<row>> or <<>>
    birthDate,    \* the date-of-birth argument, a day number
    gender,       \* the gender argument
    clock,        \* the successive readings of new Date() during the call
    selected,     \* the dataset the call selected, a table reference
    entry,        \* the row the lookup resolved during the call, <<row>> or <<>>
    result,       \* what the call returned or threw
    heap,         \* the rows the array denoted by data holds at this moment
    dom,          \* the child elements of the chart container of the page
    ecosystem     \* the values the atoms of the page hold

vars ==
    <<pc, op, measurement, lengthArg, data, entryArg, birthDate, gender, clock, selected, entry,
      result, heap, dom, ecosystem>>

-----------------------------------------------------------------------------
(* Numbers *)

NaN == <<0, 0>>

Abs(x) == IF x < 0 THEN -x ELSE x

RECURSIVE GCD(_, _)
GCD(a, b) == IF b = 0 THEN a ELSE GCD(b, a % b)

\* n/d in lowest terms with a positive denominator; x/0 is not modelled as
\* an infinity, no division by zero occurs in the modelled code paths.
Rat(n, d) ==
    IF d = 0 THEN NaN
    ELSE LET g == GCD(Abs(n), Abs(d))
             s == IF d < 0 THEN -1 ELSE 1
         IN  <<(s * n) \div g, (s * d) \div g>>

Whole(n) == <<n, 1>>

IsNaN(a) == a[2] = 0

\* a < b ; false when either side is not-a-number
Lt(a, b) == ~IsNaN(a) /\ ~IsNaN(b) /\ a[1] * b[2] < b[1] * a[2]

\* a > b
Gt(a, b) == Lt(b, a)

\* a <= b
Le(a, b) == ~IsNaN(a) /\ ~IsNaN(b) /\ a[1] * b[2] <= b[1] * a[2]

\* a === b ; NaN === NaN is false
StrictEq(a, b) == ~IsNaN(a) /\ ~IsNaN(b) /\ a = b

\* Least common multiple of two positive denominators.
LCM(a, b) == (a \div GCD(a, b)) * b

Add(a, b) ==
    IF IsNaN(a) \/ IsNaN(b) THEN NaN
    ELSE LET d == LCM(a[2], b[2])
         IN  Rat(a[1] * (d \div a[2]) + b[1] * (d \div b[2]), d)

Sub(a, b) ==
    IF IsNaN(a) \/ IsNaN(b) THEN NaN
    ELSE LET d == LCM(a[2], b[2])
         IN  Rat(a[1] * (d \div a[2]) - b[1] * (d \div b[2]), d)

Mul(a, b) ==
    IF IsNaN(a) \/ IsNaN(b) THEN NaN
    ELSE LET g1 == GCD(Abs(a[1]), b[2])
             g2 == GCD(Abs(b[1]), a[2])
         IN  Rat((a[1] \div g1) * (b[1] \div g2), (a[2] \div g2) * (b[2] \div g1))

\* a / b for b # 0
Div(a, b) == IF IsNaN(a) \/ IsNaN(b) \/ b[1] = 0 THEN NaN ELSE Mul(a, Rat(b[2], b[1]))

-----------------------------------------------------------------------------
(* Statuses and results *)

BelowSd3Neg == "below-sd3-neg"
BetweenSd3NegAndSd2Neg == "between-sd3-neg-and-sd2-neg"
BetweenSd2NegAndSd1Neg == "between-sd2-neg-and-sd1-neg"
BetweenSd1NegAndSd0 == "between-sd1-neg-and-sd0"
BetweenSd0AndSd1 == "between-sd0-and-sd1"
BetweenSd1AndSd2 == "between-sd1-and-sd2"
BetweenSd2AndSd3 == "between-sd2-and-sd3"
AboveSd3 == "above-sd3"

\* The enumerants in their declaration order, lowest band first.
EvalulationStatus ==
    <<BelowSd3Neg, BetweenSd3NegAndSd2Neg, BetweenSd2NegAndSd1Neg, BetweenSd1NegAndSd0,
      BetweenSd0AndSd1, BetweenSd1AndSd2, BetweenSd2AndSd3, AboveSd3>>

\* The seven boundary fields of a row, lowest first.
SdFields == <<"sd3neg", "sd2neg", "sd1neg", "sd0", "sd1", "sd2", "sd3">>

None == "none"

\* A returned status.
Ok(s) == [kind |-> "ok", status |-> s, message |-> None]

\* A thrown Error; message is the text before the first interpolated value.
Throw(msg) == [kind |-> "error", status |-> None, message |-> msg]

\* A returned dataset reference, type tag or undefined (selectors).
Value(v) == [kind |-> "value", status |-> v, message |-> None]

Undefined == "undefined"

ErrNoDataForLength == "No data found for length"
ErrNoDataForHeight == "No data found for height"
ErrNoDataForBirthDate == "No data found for birth date"
ErrNoLengthData == "No length data found for the birth date"
ErrNoHeightData == "No height data found for the birth date"
ErrAgeExceeds == "Age exceeds 5 years"
ErrTypeError == "TypeError: Cannot read properties of null"

-----------------------------------------------------------------------------
(* Rows and tables *)

\* Number of boundary fields of a row (sd3neg .. sd3).
NumSd == Len(SdFields)

\* The boundary fields of a row as a sequence, lowest first.
Sds(row) == [k \in 1..NumSd |-> row[SdFields[k]]]

\* Optional values: null / undefined is <<>>, a present value v is <<v>>.
Null == <<>>

Some(v) == <<v>>

IsNull(o) == o = <<>>

Min(S) == CHOOSE x \in S : \A y \in S : x <= y

-----------------------------------------------------------------------------
(* EntryLookup: findWeightForLengthEntry *)

\* data.find(d => d.length === length): the first row that matches exactly.
findExactMatch(len, value) ==
    LET I == {i \in 1..Len(value) : StrictEq(value[i].length, len)}
    IN  IF I = {} THEN Null ELSE Some(value[Min(I)])

\* The for-loop: lower is overwritten by every row below the length that is
\* visited, upper is the first row above it, and the loop stops there.
RECURSIVE scanBracket(_, _, _, _)
scanBracket(len, value, i, lower) ==
    IF i > Len(value) THEN [lower |-> lower, upper |-> Null]
    ELSE IF Lt(value[i].length, len) THEN scanBracket(len, value, i + 1, Some(value[i]))
    ELSE IF Gt(value[i].length, len) THEN [lower |-> lower, upper |-> Some(value[i])]
    ELSE scanBracket(len, value, i + 1, lower)

\* The loop without its break and its !upper test: upper ends as the last
\* row above the length.
RECURSIVE scanBracketNoBreak(_, _, _, _, _)
scanBracketNoBreak(len, value, i, lower, upper) ==
    IF i > Len(value) THEN [lower |-> lower, upper |-> upper]
    ELSE IF Lt(value[i].length, len)
         THEN scanBracketNoBreak(len, value, i + 1, Some(value[i]), upper)
    ELSE IF Gt(value[i].length, len)
         THEN scanBracketNoBreak(len, value, i + 1, lower, Some(value[i]))
    ELSE scanBracketNoBreak(len, value, i + 1, lower, upper)

findBracket_NoBreak(len, value) == scanBracketNoBreak(len, value, 1, Null, Null)

findBracket(len, value) == scanBracket(len, value, 1, Null)

\* lower.f + (upper.f - lower.f) * ratio
lerp(lo, up, ratio) == Add(lo, Mul(Sub(up, lo), ratio))

interpolationRatio_Inverted(len, lower, upper) ==
    Div(Sub(upper.length, lower.length), Sub(len, lower.length))

\* (length - lower.length) / (upper.length - lower.length)
interpolationRatio(len, lower, upper) ==
    Div(Sub(len, lower.length), Sub(upper.length, lower.length))

\* The interpolated row: length is the queried length, every other field is
\* interpolated with the same ratio.
interpolate(len, lower, upper) ==
    LET ratio == interpolationRatio(len, lower, upper)
    IN  [length |-> len,
         l      |-> lerp(lower.l, upper.l, ratio),
         m      |-> lerp(lower.m, upper.m, ratio),
         s      |-> lerp(lower.s, upper.s, ratio),
         sd3neg |-> lerp(lower.sd3neg, upper.sd3neg, ratio),
         sd2neg |-> lerp(lower.sd2neg, upper.sd2neg, ratio),
         sd1neg |-> lerp(lower.sd1neg, upper.sd1neg, ratio),
         sd0    |-> lerp(lower.sd0, upper.sd0, ratio),
         sd1    |-> lerp(lower.sd1, upper.sd1, ratio),
         sd2    |-> lerp(lower.sd2, upper.sd2, ratio),
         sd3    |-> lerp(lower.sd3, upper.sd3, ratio)]

\* Without the exact-match shortcut an exact hit falls through to the loop.
findWeightForLengthEntry_NoExactMatch(len, value) ==
    IF Len(value) = 0 THEN Null
    ELSE LET b == findBracket(len, value)
         IN  IF ~IsNull(b.lower) /\ ~IsNull(b.upper)
             THEN Some(interpolate(len, b.lower[1], b.upper[1]))
             ELSE IF ~IsNull(b.lower) THEN b.lower ELSE b.upper

\* Without the final "return lower || upper" an out-of-range length finds
\* nothing.
findWeightForLengthEntry_NoClamp(len, value) ==
    IF Len(value) = 0 THEN Null
    ELSE LET exactMatch == findExactMatch(len, value)
         IN  IF ~IsNull(exactMatch) THEN exactMatch
             ELSE LET b == findBracket(len, value)
                  IN  IF ~IsNull(b.lower) /\ ~IsNull(b.upper)
                      THEN Some(interpolate(len, b.lower[1], b.upper[1]))
                      ELSE Null

findWeightForLengthEntry(len, value) ==
    IF Len(value) = 0 THEN Null
    ELSE LET exactMatch == findExactMatch(len, value)
         IN  IF ~IsNull(exactMatch) THEN exactMatch
             ELSE LET b == findBracket(len, value)
                  IN  IF ~IsNull(b.lower) /\ ~IsNull(b.upper)
                      THEN Some(interpolate(len, b.lower[1], b.upper[1]))
                      ELSE IF ~IsNull(b.lower) THEN b.lower ELSE b.upper

\* The lookup writing the interpolated row back into the array, in place of
\* the lower row.
dataAfterFindWeightForLengthEntry_StoresRow(len, value) ==
    LET b == findBracket(len, value)
        e == findWeightForLengthEntry(len, value)
    IN  IF Len(value) > 0 /\ IsNull(findExactMatch(len, value))
           /\ ~IsNull(b.lower) /\ ~IsNull(b.upper)
        THEN [i \in 1..Len(value) |-> IF value[i] = b.lower[1] THEN e[1] ELSE value[i]]
        ELSE value

\* The rows of the array after the lookup.  The function reads data (length,
\* find, for...of) and the fields of its rows, and assigns only to its own
\* locals; the interpolated row is built as an object literal.
dataAfterFindWeightForLengthEntry(len, value) == value

-----------------------------------------------------------------------------
(* Evaluator: band classification *)

\* The cascade with <= in place of < .
classify_Inclusive(x, row) ==
    IF Le(x, row.sd3neg) THEN BelowSd3Neg
    ELSE IF Le(x, row.sd2neg) THEN BetweenSd3NegAndSd2Neg
    ELSE IF Le(x, row.sd1neg) THEN BetweenSd2NegAndSd1Neg
    ELSE IF Le(x, row.sd0) THEN BetweenSd1NegAndSd0
    ELSE IF Le(x, row.sd1) THEN BetweenSd0AndSd1
    ELSE IF Le(x, row.sd2) THEN BetweenSd1AndSd2
    ELSE IF Le(x, row.sd3) THEN BetweenSd2AndSd3
    ELSE AboveSd3

\* The cascade with the statuses of two branches exchanged.
classify_SwappedLabels(x, row) ==
    IF Lt(x, row.sd3neg) THEN BelowSd3Neg
    ELSE IF Lt(x, row.sd2neg) THEN BetweenSd3NegAndSd2Neg
    ELSE IF Lt(x, row.sd1neg) THEN BetweenSd2NegAndSd1Neg
    ELSE IF Lt(x, row.sd0) THEN BetweenSd0AndSd1
    ELSE IF Lt(x, row.sd1) THEN BetweenSd1NegAndSd0
    ELSE IF Lt(x, row.sd2) THEN BetweenSd1AndSd2
    ELSE IF Lt(x, row.sd3) THEN BetweenSd2AndSd3
    ELSE AboveSd3

evaluateLengthAgainstEntry_SwappedLabels(len, e) == classify_SwappedLabels(len, e)

evaluateLengthAgainstEntry(len, e) ==
    IF Lt(len, e.sd3neg) THEN BelowSd3Neg
    ELSE IF Lt(len, e.sd2neg) THEN BetweenSd3NegAndSd2Neg
    ELSE IF Lt(len, e.sd1neg) THEN BetweenSd2NegAndSd1Neg
    ELSE IF Lt(len, e.sd0) THEN BetweenSd1NegAndSd0
    ELSE IF Lt(len, e.sd1) THEN BetweenSd0AndSd1
    ELSE IF Lt(len, e.sd2) THEN BetweenSd1AndSd2
    ELSE IF Lt(len, e.sd3) THEN BetweenSd2AndSd3
    ELSE AboveSd3

evaluateHeightAgainstEntry_Inclusive(height, e) == classify_Inclusive(height, e)

evaluateHeightAgainstEntry(height, e) ==
    IF Lt(height, e.sd3neg) THEN BelowSd3Neg
    ELSE IF Lt(height, e.sd2neg) THEN BetweenSd3NegAndSd2Neg
    ELSE IF Lt(height, e.sd1neg) THEN BetweenSd2NegAndSd1Neg
    ELSE IF Lt(height, e.sd0) THEN BetweenSd1NegAndSd0
    ELSE IF Lt(height, e.sd1) THEN BetweenSd0AndSd1
    ELSE IF Lt(height, e.sd2) THEN BetweenSd1AndSd2
    ELSE IF Lt(height, e.sd3) THEN BetweenSd2AndSd3
    ELSE AboveSd3

\* Without the null check the first comparison dereferences null.
evaluateWeightForLength_NoNullCheck(weight, len, value) ==
    LET e == findWeightForLengthEntry(len, value)
    IN  IF IsNull(e) THEN Throw(ErrTypeError)
        ELSE Ok(evaluateLengthAgainstEntry(weight, e[1]))

evaluateWeightForLength_Inclusive(weight, len, value) ==
    LET e == findWeightForLengthEntry(len, value)
    IN  IF IsNull(e) THEN Throw(ErrNoDataForLength)
        ELSE Ok(classify_Inclusive(weight, e[1]))

evaluateWeightForLength(weight, len, value) ==
    LET e == findWeightForLengthEntry(len, value)
    IN  IF IsNull(e) THEN Throw(ErrNoDataForLength)
        ELSE IF Lt(weight, e[1].sd3neg) THEN Ok(BelowSd3Neg)
        ELSE IF Lt(weight, e[1].sd2neg) THEN Ok(BetweenSd3NegAndSd2Neg)
        ELSE IF Lt(weight, e[1].sd1neg) THEN Ok(BetweenSd2NegAndSd1Neg)
        ELSE IF Lt(weight, e[1].sd0) THEN Ok(BetweenSd1NegAndSd0)
        ELSE IF Lt(weight, e[1].sd1) THEN Ok(BetweenSd0AndSd1)
        ELSE IF Lt(weight, e[1].sd2) THEN Ok(BetweenSd1AndSd2)
        ELSE IF Lt(weight, e[1].sd3) THEN Ok(BetweenSd2AndSd3)
        ELSE Ok(AboveSd3)

-----------------------------------------------------------------------------
(* Inputs of the table and row evaluators *)

\* Largest number of rows of a table argument.
MaxRows == 3

\* Largest boundary value of a row argument of the by-entry evaluators.
MaxSd == 2

\* Row i of a table argument.  Its length is 1 + i(i+1)/2 (2, 4, 7, ...), so
\* that the gaps between rows differ.  Its boundaries are non-decreasing: the lowest p of them are
\* i and the others i + 1.  sd0 is the median m rounded, as in the WHO tables.
TableRow(i, p) ==
    LET sd(k) == IF k <= p THEN Whole(i) ELSE Whole(i + 1)
    IN  [length |-> Whole(1 + (i * (i + 1)) \div 2),
         l      |-> Rat(-(3 + i), 10),
         m      |-> Add(sd(4), Rat(i, 100)),
         s      |-> Rat(10 - i, 100),
         sd3neg |-> sd(1), sd2neg |-> sd(2), sd1neg |-> sd(3), sd0 |-> sd(4),
         sd1    |-> sd(5), sd2    |-> sd(6), sd3    |-> sd(7)]

\* The table arguments: ascending by length, no duplicates, from no row to
\* MaxRows rows.  The shape of the first row is any p, and the shape advances
\* by any fixed step from one row to the next, so that every pair of shapes
\* occurs on every pair of adjacent rows.  An array is a reference: the state
\* holds which array it is (a shipped table by name, or the shapes of the
\* rows of a caller's table), Table gives its rows.
Tables ==
    {[name |-> "caller", shapes |-> [i \in 1..k |-> (p + (i - 1) * step) % (NumSd + 1)]] :
        k \in 0..MaxRows, p \in 0..NumSd, step \in 0..NumSd}

\* The length arguments: every whole length from below the first row to
\* above the last one, and not-a-number.
Lengths == {Whole(q) : q \in 1..(2 + (MaxRows * (MaxRows + 1)) \div 2)} \cup {NaN}

\* The weight arguments: every half from below the lowest boundary to above
\* the highest one, and not-a-number.
Weights == {Rat(k, 2) : k \in 1..(2 * MaxRows + 3)} \cup {NaN}

\* The non-decreasing sequences of n values of 0..MaxSd.
RECURSIVE Monotone(_)
Monotone(n) ==
    IF n = 0 THEN {<<>>}
    ELSE {Append(t, v) : t \in Monotone(n - 1), v \in 0..MaxSd} \cap
         {t \in [1..n -> 0..MaxSd] : \A k \in 1..(n - 1) : t[k] <= t[k + 1]}

\* The row arguments of evaluateLengthAgainstEntry (keyed by week).
LengthEntries ==
    {[week |-> 0, l |-> Whole(1), m |-> Whole(t[4]), s |-> Rat(4, 100),
      sd3neg |-> Whole(t[1]), sd2neg |-> Whole(t[2]), sd1neg |-> Whole(t[3]), sd0 |-> Whole(t[4]),
      sd1 |-> Whole(t[5]), sd2 |-> Whole(t[6]), sd3 |-> Whole(t[7])] : t \in Monotone(NumSd)}

\* The row arguments of evaluateHeightAgainstEntry (keyed by month).
HeightEntries ==
    {[month |-> 0, l |-> Whole(1), m |-> Whole(t[4]), s |-> Rat(4, 100),
      sd3neg |-> Whole(t[1]), sd2neg |-> Whole(t[2]), sd1neg |-> Whole(t[3]), sd0 |-> Whole(t[4]),
      sd1 |-> Whole(t[5]), sd2 |-> Whole(t[6]), sd3 |-> Whole(t[7])] : t \in Monotone(NumSd)}

\* The measurement arguments of the by-entry evaluators.
Measurements == {Rat(k, 2) : k \in -1..(2 * MaxSd + 1)} \cup {NaN}

-----------------------------------------------------------------------------
(* The shipped weight-for-length tables.  The table files are not part of   *)
(* the sources at hand; the rows kept here are the ones the tests and the   *)
(* specification quote (45 cm, 45.5 cm, 50 cm), the other rows are left out.*)

WflRow(len, m, s, sds) ==
    [length |-> len, l |-> Rat(-3833, 10000), m |-> m, s |-> s,
     sd3neg |-> Rat(sds[1], 10), sd2neg |-> Rat(sds[2], 10), sd1neg |-> Rat(sds[3], 10),
     sd0 |-> Rat(sds[4], 10), sd1 |-> Rat(sds[5], 10), sd2 |-> Rat(sds[6], 10),
     sd3 |-> Rat(sds[7], 10)]

weightForLengthGirlBirthTo2Years ==
    << WflRow(Whole(45), Rat(24607, 10000), Rat(9029, 100000), <<19, 21, 23, 25, 27, 30, 33>>),
       WflRow(Rat(91, 2), Rat(25457, 10000), Rat(9033, 100000), <<20, 22, 24, 26, 28, 31, 34>>),
       WflRow(Whole(50), Rat(33627, 10000), Rat(9065, 100000), <<26, 28, 31, 34, 37, 40, 45>>) >>


-----------------------------------------------------------------------------
(* The shipped length-for-age tables (birth to 13 weeks), as published.      *)

\* A LengthForAge row; l is 1 in every row, the boundaries are in tenths.
LfaRow(week, m, s, sds) ==
    [week |-> week, l |-> Whole(1), m |-> m, s |-> s,
     sd3neg |-> Rat(sds[1], 10), sd2neg |-> Rat(sds[2], 10), sd1neg |-> Rat(sds[3], 10),
     sd0 |-> Rat(sds[4], 10), sd1 |-> Rat(sds[5], 10), sd2 |-> Rat(sds[6], 10),
     sd3 |-> Rat(sds[7], 10)]

lengthForAgeGirl0To13Weeks ==
    <<
       LfaRow(0, Rat(491477, 10000), Rat(379, 10000), <<436, 454, 473, 491, 510, 529, 547>>),
       LfaRow(1, Rat(503298, 10000), Rat(3742, 100000), <<447, 466, 484, 503, 522, 541, 560>>),
       LfaRow(2, Rat(51512, 1000), Rat(3694, 100000), <<458, 477, 496, 515, 534, 553, 572>>),
       LfaRow(3, Rat(524695, 10000), Rat(3669, 100000), <<467, 486, 505, 525, 544, 563, 582>>),
       LfaRow(4, Rat(533809, 10000), Rat(3647, 100000), <<475, 495, 514, 534, 553, 573, 592>>),
       LfaRow(5, Rat(542454, 10000), Rat(3627, 100000), <<483, 503, 523, 542, 562, 582, 601>>),
       LfaRow(6, Rat(550642, 10000), Rat(3609, 100000), <<491, 511, 531, 551, 571, 590, 610>>),
       LfaRow(7, Rat(558406, 10000), Rat(3593, 100000), <<498, 518, 538, 558, 578, 599, 619>>),
       LfaRow(8, Rat(565767, 10000), Rat(3578, 100000), <<505, 525, 546, 566, 586, 606, 626>>),
       LfaRow(9, Rat(572761, 10000), Rat(3564, 100000), <<512, 532, 552, 573, 593, 614, 634>>),
       LfaRow(10, Rat(579436, 10000), Rat(3552, 100000), <<518, 538, 559, 579, 600, 621, 641>>),
       LfaRow(11, Rat(585816, 10000), Rat(354, 10000), <<524, 544, 565, 586, 607, 627, 648>>),
       LfaRow(12, Rat(591922, 10000), Rat(353, 10000), <<529, 550, 571, 592, 613, 634, 655>>),
       LfaRow(13, Rat(597773, 10000), Rat(352, 10000), <<535, 556, 577, 598, 619, 640, 661>>)
    >>

lengthForAgeBoy0To13Weeks ==
    <<
       LfaRow(0, Rat(498842, 10000), Rat(3795, 100000), <<442, 461, 480, 499, 518, 537, 556>>),
       LfaRow(1, Rat(511152, 10000), Rat(3723, 100000), <<454, 473, 492, 511, 530, 549, 568>>),
       LfaRow(2, Rat(523461, 10000), Rat(3652, 100000), <<466, 485, 504, 523, 543, 562, 581>>),
       LfaRow(3, Rat(533905, 10000), Rat(3609, 100000), <<476, 495, 515, 534, 553, 572, 592>>),
       LfaRow(4, Rat(543881, 10000), Rat(357, 10000), <<486, 505, 524, 544, 563, 583, 602>>),
       LfaRow(5, Rat(553374, 10000), Rat(3534, 100000), <<495, 514, 534, 553, 573, 592, 612>>),
       LfaRow(6, Rat(562357, 10000), Rat(3501, 100000), <<503, 523, 543, 562, 582, 602, 621>>),
       LfaRow(7, Rat(570851, 10000), Rat(347, 10000), <<511, 531, 551, 571, 591, 610, 630>>),
       LfaRow(8, Rat(578889, 10000), Rat(3442, 100000), <<519, 539, 559, 579, 599, 619, 639>>),
       LfaRow(9, Rat(586536, 10000), Rat(3416, 100000), <<526, 546, 566, 587, 607, 627, 647>>),
       LfaRow(10, Rat(593872, 10000), Rat(3392, 100000), <<533, 554, 574, 594, 614, 634, 654>>),
       LfaRow(11, Rat(600894, 10000), Rat(3369, 100000), <<540, 560, 581, 601, 621, 641, 662>>),
       LfaRow(12, Rat(607605, 10000), Rat(3348, 100000), <<547, 567, 587, 608, 628, 648, 669>>),
       LfaRow(13, Rat(614013, 10000), Rat(3329, 100000), <<553, 573, 594, 614, 634, 655, 675>>)
    >>

(* The shipped height-for-age tables.  The table files are not part of the   *)
(* sources at hand: the rows kept here have the published keys (months 0 to  *)
(* 24 and 24 to 60) and stand-in boundaries two centimetres apart around a   *)
(* median that grows with the month.                                         *)

HfaRow(month, median) ==
    [month |-> month, l |-> Whole(1), m |-> Whole(median), s |-> Rat(4, 100),
     sd3neg |-> Whole(median - 6), sd2neg |-> Whole(median - 4), sd1neg |-> Whole(median - 2),
     sd0 |-> Whole(median), sd1 |-> Whole(median + 2), sd2 |-> Whole(median + 4),
     sd3 |-> Whole(median + 6)]

heightForAgeGirl0To2Years == [i \in 1..25 |-> HfaRow(i - 1, 49 + (i - 1))]

heightForAgeBoy0To2Years == [i \in 1..25 |-> HfaRow(i - 1, 50 + (i - 1))]

heightForAgeGirl2To5Years == [i \in 1..37 |-> HfaRow(i + 23, 62 + i)]

heightForAgeBoy2To5Years == [i \in 1..37 |-> HfaRow(i + 23, 63 + i)]

(* The other shipped weight-for-length tables, likewise not part of the      *)
(* sources at hand: stand-in rows at the ends of their published ranges.     *)

weightForLengthBoyBirthTo2Years ==
    << WflRow(Whole(45), Rat(24410, 10000), Rat(9182, 100000), <<19, 20, 22, 24, 27, 30, 33>>),
       WflRow(Whole(110), Rat(183000, 10000), Rat(8500, 100000), <<142, 154, 168, 183, 200, 218, 239>>) >>

weightForLengthGirl2To5Years ==
    << WflRow(Whole(65), Rat(72000, 10000), Rat(9000, 100000), <<56, 61, 66, 72, 79, 87, 97>>),
       WflRow(Whole(120), Rat(230000, 10000), Rat(9500, 100000), <<172, 189, 208, 230, 255, 284, 317>>) >>

weightForLengthBoy2To5Years ==
    << WflRow(Whole(65), Rat(74000, 10000), Rat(8500, 100000), <<59, 63, 69, 74, 81, 88, 96>>),
       WflRow(Whole(120), Rat(231000, 10000), Rat(9000, 100000), <<176, 192, 210, 231, 254, 280, 310>>) >>

\* A reference to a shipped table.
Shipped(n) == [name |-> n, shapes |-> <<>>]

NoTable == [name |-> "none", shapes |-> <<>>]

\* The rows of the array a reference denotes.
Table(ref) ==
    CASE ref.name = "caller" -> [i \in 1..Len(ref.shapes) |-> TableRow(i, ref.shapes[i])]
      [] ref.name = "weightForLengthGirlBirthTo2Years" -> weightForLengthGirlBirthTo2Years
      [] ref.name = "weightForLengthBoyBirthTo2Years" -> weightForLengthBoyBirthTo2Years
      [] ref.name = "weightForLengthGirl2To5Years" -> weightForLengthGirl2To5Years
      [] ref.name = "weightForLengthBoy2To5Years" -> weightForLengthBoy2To5Years
      [] ref.name = "lengthForAgeGirl0To13Weeks" -> lengthForAgeGirl0To13Weeks
      [] ref.name = "lengthForAgeBoy0To13Weeks" -> lengthForAgeBoy0To13Weeks
      [] ref.name = "heightForAgeGirl0To2Years" -> heightForAgeGirl0To2Years
      [] ref.name = "heightForAgeBoy0To2Years" -> heightForAgeBoy0To2Years
      [] ref.name = "heightForAgeGirl2To5Years" -> heightForAgeGirl2To5Years
      [] ref.name = "heightForAgeBoy2To5Years" -> heightForAgeBoy2To5Years
      [] ref.name = "none" -> <<>>

\* The lengths and weights the tests and the specification use on it.
ShippedLengths == {Whole(40), Whole(45), Rat(181, 4), Rat(91, 2), Whole(50), Whole(120)}

ShippedWeights ==
    {Rat(15, 10), Rat(19, 10), Rat(23, 10), Rat(25, 10), Rat(255, 100), Rat(33, 10), Whole(4)}

-----------------------------------------------------------------------------
(* The calls *)

NoDate == -1000000

NoGender == "none"

InitEvaluateWeightForLength ==
    /\ op = "evaluateWeightForLength"
    /\ \/ measurement \in Weights /\ lengthArg \in Lengths /\ data \in Tables
       \/ /\ measurement \in ShippedWeights
          /\ lengthArg \in ShippedLengths
          /\ data = Shipped("weightForLengthGirlBirthTo2Years")
    /\ entryArg = Null
    /\ birthDate = NoDate /\ gender = NoGender /\ clock = <<>>

InitEvaluateAgainstEntry ==
    /\ \/ op = "evaluateLengthAgainstEntry" /\ entryArg \in {Some(e) : e \in LengthEntries}
       \/ op = "evaluateHeightAgainstEntry" /\ entryArg \in {Some(e) : e \in HeightEntries}
    /\ measurement \in Measurements
    /\ lengthArg = NaN
    /\ data = NoTable
    /\ birthDate = NoDate /\ gender = NoGender /\ clock = <<>>

\* The atoms before any request is set: the request atoms hold null, the
\* status atoms derived from them undefined.
InitialEcosystem ==
    [weightEvaluationRequestAtom |-> Null,
     lengthOrHeightEvaluationRequestAtom |-> Null,
     weightForAgeEvaluationRequestAtom |-> Null,
     weightStatusAtom |-> Value(Undefined),
     lengthOrHeightEvaluationStatusAtom |-> Value(Undefined)]

NotCalled ==
    /\ pc = "ready"
    /\ selected = NoTable
    /\ entry = Null
    /\ result = Value(Undefined)
    /\ dom = <<>>
    /\ ecosystem = InitialEcosystem

\* The arrays are loaded with the module: before the call the array holds the
\* rows it was built with.
Loaded == heap = Table(data)

Init ==
    /\ NotCalled
    /\ \/ InitEvaluateWeightForLength
       \/ InitEvaluateAgainstEntry
    /\ Loaded

CallArgs == <<op, measurement, lengthArg, data, entryArg, birthDate, gender, clock>>

Args == <<CallArgs, heap, dom, ecosystem>>

EvaluateWeightForLength ==
    /\ pc = "ready" /\ op = "evaluateWeightForLength"
    /\ selected' = data
    /\ entry' = findWeightForLengthEntry(lengthArg, heap)
    /\ result' = evaluateWeightForLength(measurement, lengthArg, heap)
    /\ heap' = dataAfterFindWeightForLengthEntry(lengthArg, heap)
    /\ pc' = "done"
    /\ UNCHANGED <<CallArgs, dom, ecosystem>>

EvaluateLengthAgainstEntry ==
    /\ pc = "ready" /\ op = "evaluateLengthAgainstEntry"
    /\ selected' = NoTable
    /\ entry' = entryArg
    /\ result' = Ok(evaluateLengthAgainstEntry(measurement, entryArg[1]))
    /\ pc' = "done"
    /\ UNCHANGED Args

EvaluateHeightAgainstEntry ==
    /\ pc = "ready" /\ op = "evaluateHeightAgainstEntry"
    /\ selected' = NoTable
    /\ entry' = entryArg
    /\ result' = Ok(evaluateHeightAgainstEntry(measurement, entryArg[1]))
    /\ pc' = "done"
    /\ UNCHANGED Args

Next ==
    \/ EvaluateWeightForLength
    \/ EvaluateLengthAgainstEntry
    \/ EvaluateHeightAgainstEntry

Spec == Init /\ [][Next]_vars

-----------------------------------------------------------------------------
(* Dates.  A Date is a day number, day 0 being 2020-01-01, local midnight.   *)
(* The calendar fields are those of the proleptic Gregorian calendar that    *)
(* Date implements, computed on years that begin on 1 March, so that the     *)
(* leap day is the last day of its year.                                     *)

\* The day number of 2000-03-01, the first day of a 400-year cycle.
CycleStart == 0 - 7245

\* The year of the March-based calendar a day lies in, counted from 2000.
YearOfCycle(date) ==
    LET doe == date - CycleStart
    IN  (doe - (doe \div 1460) + (doe \div 36524) - (doe \div 146096)) \div 365

\* The day of the March-based year, 0 = 1 March.
DayOfMarchYear(date) ==
    LET yoe == YearOfCycle(date)
    IN  (date - CycleStart) - (365 * yoe + (yoe \div 4) - (yoe \div 100))

\* The month of the March-based year, 0 = March.
MarchMonth(date) == (5 * DayOfMarchYear(date) + 2) \div 153

getFullYear(date) == 2000 + YearOfCycle(date) + (IF MarchMonth(date) >= 10 THEN 1 ELSE 0)

\* 0 = January.
getMonth(date) == IF MarchMonth(date) < 10 THEN MarchMonth(date) + 2 ELSE MarchMonth(date) - 10

getDate(date) == DayOfMarchYear(date) - ((153 * MarchMonth(date) + 2) \div 5) + 1

\* new Date(y, m, d), m as getMonth() returns it.
DateOf(y, m, d) ==
    LET yoe == (IF m <= 1 THEN y - 1 ELSE y) - 2000
        mp == IF m > 1 THEN m - 2 ELSE m + 10
        doy == ((153 * mp + 2) \div 5) + d - 1
    IN  CycleStart + yoe * 365 + (yoe \div 4) - (yoe \div 100) + doy

\* The evaluation date of the calls: 2025-05-31, so that the clock can pass
\* from the last day of a month to the first day of the next during a call.
Today == DateOf(2025, 4, 31)

\* The oldest child, in days before Today (a little over 62 months).
MaxAgeDays == 1900

\* The latest birth date, in days after Today.
MaxFutureDays == 2

\* The most days the clock advances between two readings of one call.
MaxClockAdvance == 1

BirthDates == (Today - MaxAgeDays)..(Today + MaxFutureDays)

-----------------------------------------------------------------------------
(* math.ts.  new Date() inside a function is the parameter today / now.      *)

\* The month count decremented already on the day of the month of birth.
calculateMonthsSinceBirth_DayInclusive(birthDate_, today) ==
    LET totalMonths == (getFullYear(today) - getFullYear(birthDate_)) * 12
                           + (getMonth(today) - getMonth(birthDate_))
    IN  IF getDate(today) - getDate(birthDate_) <= 0 THEN totalMonths - 1 ELSE totalMonths

calculateMonthsSinceBirth(birthDate_, today) ==
    LET years == getFullYear(today) - getFullYear(birthDate_)
        months == getMonth(today) - getMonth(birthDate_)
        days == getDate(today) - getDate(birthDate_)
        totalMonths == years * 12 + months
    IN  IF days < 0 THEN totalMonths - 1 ELSE totalMonths

\* Math.round in place of Math.floor.
calculateWeeksBetweenDates_Round(fromDate, toDate) == (2 * (toDate - fromDate) + 7) \div 14

\* Math.floor(diffMs / msPerWeek); both dates are whole days apart up to the
\* time of day of toDate, which the floor discards.
calculateWeeksBetweenDates(fromDate, toDate) == (toDate - fromDate) \div 7

\* calculateDaysBetweenDates is imported from math.ts by weight-for-age.ts;
\* its body is not part of the sources at hand.
calculateDaysBetweenDates(fromDate, toDate) == toDate - fromDate

DAYS_IN_WEEK == 7

DAYS_IN_YEAR == 365

DAYS_IN_13_WEEKS == 13 * DAYS_IN_WEEK

DAYS_IN_5_YEARS == 5 * DAYS_IN_YEAR

-----------------------------------------------------------------------------
(* DatasetSelector *)

Male == "male"

Female == "female"

Gender == {Male, Female}

\* LengthOrHeightForAgeType / WeightForAgeType
TypeLength == "length"

TypeHeight == "height"

\* The selector with the last bracket as a fallback for every older child.
getWeightForLengthByBirthDate_Fallback(birthDate_, gender_, today) ==
    LET age == calculateMonthsSinceBirth(birthDate_, today)
    IN  IF age <= 24 /\ gender_ = Female THEN Shipped("weightForLengthGirlBirthTo2Years")
        ELSE IF gender_ = Female THEN Shipped("weightForLengthGirl2To5Years")
        ELSE IF age <= 24 /\ gender_ = Male THEN Shipped("weightForLengthBoyBirthTo2Years")
        ELSE IF gender_ = Male THEN Shipped("weightForLengthBoy2To5Years")
        ELSE NoTable

\* undefined is NoTable.
getWeightForLengthByBirthDate(birthDate_, gender_, today) ==
    LET age == calculateMonthsSinceBirth(birthDate_, today)
    IN  IF age <= 24 /\ gender_ = Female THEN Shipped("weightForLengthGirlBirthTo2Years")
        ELSE IF age <= 60 /\ gender_ = Female THEN Shipped("weightForLengthGirl2To5Years")
        ELSE IF age <= 24 /\ gender_ = Male THEN Shipped("weightForLengthBoyBirthTo2Years")
        ELSE IF age <= 60 /\ gender_ = Male THEN Shipped("weightForLengthBoy2To5Years")
        ELSE NoTable

getLengthOrHeightForAgeType(birthDate_, now) ==
    LET weeks == calculateWeeksBetweenDates(birthDate_, now)
    IN  IF weeks <= 13 THEN Value(TypeLength)
        ELSE IF weeks <= 52 THEN Value(TypeHeight)
        ELSE Throw(ErrAgeExceeds)

getLengthForAgeDataset(birthDate_, gender_, today) ==
    LET age == calculateMonthsSinceBirth(birthDate_, today)
    IN  IF age <= 13 /\ gender_ = Female THEN Shipped("lengthForAgeGirl0To13Weeks")
        ELSE IF age <= 13 /\ gender_ = Male THEN Shipped("lengthForAgeBoy0To13Weeks")
        ELSE NoTable

\* The selector with the girls' table of 2 to 5 years for every child of that
\* age.
getHeightForAgeDataset_AnySex(birthDate_, gender_, today) ==
    LET age == calculateMonthsSinceBirth(birthDate_, today)
    IN  IF age <= 24 /\ gender_ = Female THEN Shipped("heightForAgeGirl0To2Years")
        ELSE IF age <= 24 /\ gender_ = Male THEN Shipped("heightForAgeBoy0To2Years")
        ELSE IF age <= 60 THEN Shipped("heightForAgeGirl2To5Years")
        ELSE NoTable

getHeightForAgeDataset(birthDate_, gender_, today) ==
    LET age == calculateMonthsSinceBirth(birthDate_, today)
    IN  IF age <= 24 /\ gender_ = Female THEN Shipped("heightForAgeGirl0To2Years")
        ELSE IF age <= 24 /\ gender_ = Male THEN Shipped("heightForAgeBoy0To2Years")
        ELSE IF age <= 60 /\ gender_ = Female THEN Shipped("heightForAgeGirl2To5Years")
        ELSE IF age <= 60 /\ gender_ = Male THEN Shipped("heightForAgeBoy2To5Years")
        ELSE NoTable

\* { lengthForAge } when the by-week table is selected, else { heightForAge },
\* whose value may be undefined.  clk holds the readings of the two selectors.
getLengthOrHeightForAgeDataset(birthDate_, gender_, clk) ==
    LET lengthForAge == getLengthForAgeDataset(birthDate_, gender_, clk[1])
    IN  IF lengthForAge # NoTable
        THEN [lengthForAge |-> lengthForAge, heightForAge |-> NoTable]
        ELSE [lengthForAge |-> NoTable,
              heightForAge |-> getHeightForAgeDataset(birthDate_, gender_, clk[2])]

\* The weight-for-age selector with the brackets of each sex checked in
\* descending order.
getWeightForAgeDataset_Descending(dateOfBirth, gender_, dateOfEvaluation) ==
    LET days == dateOfEvaluation - dateOfBirth
    IN  IF days <= 5 * 365 /\ gender_ = "female"
            THEN [type |-> "height", data |-> [name |-> "weightForAgeGirl0To5Years", shapes |-> <<>>]]
        ELSE IF days <= 5 * 365 /\ gender_ = "male"
            THEN [type |-> "height", data |-> [name |-> "weightForAgeBoy0To5Years", shapes |-> <<>>]]
        ELSE [type |-> "undefined", data |-> [name |-> "none", shapes |-> <<>>]]

\* The result is { type, data } or undefined (type "undefined", no table).
\* dateOfEvaluation ?? new Date() is the parameter dateOfEvaluation.
getWeightForAgeDataset(dateOfBirth, gender_, dateOfEvaluation) ==
    LET days == calculateDaysBetweenDates(dateOfBirth, dateOfEvaluation)
    IN  IF days <= DAYS_IN_13_WEEKS /\ gender_ = Female
            THEN [type |-> TypeLength, data |-> Shipped("weightForAgeGirl0To13Weeks")]
        ELSE IF days <= DAYS_IN_5_YEARS /\ gender_ = Female
            THEN [type |-> TypeHeight, data |-> Shipped("weightForAgeGirl0To5Years")]
        ELSE IF days <= DAYS_IN_13_WEEKS /\ gender_ = Male
            THEN [type |-> TypeLength, data |-> Shipped("weightForAgeBoy0To13Weeks")]
        ELSE IF days <= DAYS_IN_5_YEARS /\ gender_ = Male
            THEN [type |-> TypeHeight, data |-> Shipped("weightForAgeBoy0To5Years")]
        ELSE [type |-> Undefined, data |-> NoTable]

-----------------------------------------------------------------------------
(* By-age entry lookup and evaluation *)

findLengthForAgeEntryByDateOfBirth(birthDate_, lengthForAge, now) ==
    LET weeks == calculateWeeksBetweenDates(birthDate_, now)
        I == {i \in 1..Len(lengthForAge) : lengthForAge[i].week = weeks}
    IN  IF I = {} THEN Null ELSE Some(lengthForAge[Min(I)])

findHeightForAgeEntryByDateOfBirth(birthDate_, heightForAge, today) ==
    LET months == calculateMonthsSinceBirth(birthDate_, today)
        I == {i \in 1..Len(heightForAge) : heightForAge[i].month = months}
    IN  IF I = {} THEN Null ELSE Some(heightForAge[Min(I)])

\* The by-week evaluation reporting a missing row by the message of a missing
\* dataset.
evaluateLengthForAgeFromDataset_DatasetMessage(len, birthDate_, lengthForAge, now) ==
    LET I == {i \in 1..Len(lengthForAge) : lengthForAge[i].week = (now - birthDate_) \div 7}
    IN  IF I = {} THEN Throw(ErrNoLengthData)
        ELSE Ok(evaluateLengthAgainstEntry(len, lengthForAge[Min(I)]))

evaluateLengthForAgeFromDataset(len, birthDate_, lengthForAge, now) ==
    LET lengthForAgeEntry == findLengthForAgeEntryByDateOfBirth(birthDate_, lengthForAge, now)
    IN  IF IsNull(lengthForAgeEntry) THEN Throw(ErrNoDataForLength)
        ELSE Ok(evaluateLengthAgainstEntry(len, lengthForAgeEntry[1]))

evaluateHeightForAgeFromDataset(height, birthDate_, heightForAge, today) ==
    LET heightForAgeEntry == findHeightForAgeEntryByDateOfBirth(birthDate_, heightForAge, today)
    IN  IF IsNull(heightForAgeEntry) THEN Throw(ErrNoDataForHeight)
        ELSE Ok(evaluateHeightAgainstEntry(height, heightForAgeEntry[1]))

\* clk holds the three clock readings of the call: of the type selector, of
\* the dataset selector and of the entry lookup.
evaluateLengthOrHeightForAge(lengthOrHeight, birthDate_, gender_, clk) ==
    LET lengthOrHeightForAgeType == getLengthOrHeightForAgeType(birthDate_, clk[1])
    IN  IF lengthOrHeightForAgeType.kind = "error" THEN lengthOrHeightForAgeType
        ELSE IF lengthOrHeightForAgeType.status = TypeLength
        THEN LET lengthForAge == getLengthForAgeDataset(birthDate_, gender_, clk[2])
             IN  IF lengthForAge = NoTable THEN Throw(ErrNoLengthData)
                 ELSE evaluateLengthForAgeFromDataset(lengthOrHeight, birthDate_,
                                                      Table(lengthForAge), clk[3])
        ELSE LET heightForAge == getHeightForAgeDataset(birthDate_, gender_, clk[2])
             IN  IF heightForAge = NoTable THEN Throw(ErrNoHeightData)
                 ELSE evaluateHeightForAgeFromDataset(lengthOrHeight, birthDate_,
                                                      Table(heightForAge), clk[3])

ErrNoDataForTheBirthDate == "No data found for the birth date"

\* The evaluation of length-height-for-age.ts, which tries the by-week table
\* first.  clk holds the three clock readings of the call: of the two dataset
\* selectors and of the entry lookup.
evaluateLengthHeightForAge(lengthOrHeight, birthDate_, gender_, clk) ==
    LET lengthForAge == getLengthForAgeDataset(birthDate_, gender_, clk[1])
        heightForAge == getHeightForAgeDataset(birthDate_, gender_, clk[2])
    IN  IF lengthForAge = NoTable /\ heightForAge = NoTable
        THEN Throw(ErrNoDataForTheBirthDate)
        ELSE IF lengthForAge # NoTable
        THEN evaluateLengthForAgeFromDataset(lengthOrHeight, birthDate_, Table(lengthForAge),
                                             clk[3])
        ELSE evaluateHeightForAgeFromDataset(lengthOrHeight, birthDate_, Table(heightForAge),
                                             clk[3])

\* The dataset evaluateLengthOrHeightForAge selects on its way, if it gets
\* that far.
selectedByEvaluateLengthOrHeightForAge(birthDate_, gender_, clk) ==
    LET lengthOrHeightForAgeType == getLengthOrHeightForAgeType(birthDate_, clk[1])
    IN  IF lengthOrHeightForAgeType.kind = "error" THEN NoTable
        ELSE IF lengthOrHeightForAgeType.status = TypeLength
        THEN getLengthForAgeDataset(birthDate_, gender_, clk[2])
        ELSE getHeightForAgeDataset(birthDate_, gender_, clk[2])

\* The row evaluateLengthOrHeightForAge resolves on its way, if it gets that
\* far.
entryOfEvaluateLengthOrHeightForAge(birthDate_, gender_, clk) ==
    LET lengthOrHeightForAgeType == getLengthOrHeightForAgeType(birthDate_, clk[1])
        dataset == selectedByEvaluateLengthOrHeightForAge(birthDate_, gender_, clk)
    IN  IF lengthOrHeightForAgeType.kind = "error" \/ dataset = NoTable THEN Null
        ELSE IF lengthOrHeightForAgeType.status = TypeLength
        THEN findLengthForAgeEntryByDateOfBirth(birthDate_, Table(dataset), clk[3])
        ELSE findHeightForAgeEntryByDateOfBirth(birthDate_, Table(dataset), clk[3])

evaluateWeightSinceBirth(weight, len, birthDate_, gender_, today) ==
    LET weightForLength == getWeightForLengthByBirthDate(birthDate_, gender_, today)
    IN  IF weightForLength = NoTable THEN Throw(ErrNoDataForBirthDate)
        ELSE evaluateWeightForLength(weight, len, Table(weightForLength))

-----------------------------------------------------------------------------
(* The calls that depend on the child's age *)

\* n successive clock readings, the first one Today.
RECURSIVE ClockReadings(_)
ClockReadings(n) ==
    IF n = 1 THEN {<<Today>>}
    ELSE {Append(c, c[n - 1] + a) : c \in ClockReadings(n - 1), a \in 0..MaxClockAdvance}

\* Lengths, heights and weights of the by-age calls: one inside the bands of
\* every age, one below and one above them all.
AgeMeasurements == {Whole(3), Rat(553, 10), Whole(200)}

AgeLengths == {Whole(45), Whole(80)}

AgeWeights == {Rat(25, 10), Whole(11)}

SelectorOps1 ==
    {"getWeightForLengthByBirthDate", "getLengthOrHeightForAgeType", "getLengthForAgeDataset",
     "getHeightForAgeDataset", "getWeightForAgeDataset"}

InitSelector ==
    /\ \/ op \in SelectorOps1 /\ clock \in ClockReadings(1)
       \/ op = "getLengthOrHeightForAgeDataset" /\ clock \in ClockReadings(2)
    /\ birthDate \in BirthDates
    /\ gender \in Gender
    /\ measurement = NaN /\ lengthArg = NaN /\ data = NoTable /\ entryArg = Null

InitEvaluateWeightSinceBirth ==
    /\ op = "evaluateWeightSinceBirth"
    /\ measurement \in AgeWeights
    /\ lengthArg \in AgeLengths
    /\ birthDate \in BirthDates
    /\ gender \in Gender
    /\ clock \in ClockReadings(1)
    /\ data = NoTable /\ entryArg = Null

InitEvaluateLengthOrHeightForAge ==
    /\ op \in {"evaluateLengthOrHeightForAge", "evaluateLengthHeightForAge"}
    /\ measurement \in AgeMeasurements
    /\ birthDate \in BirthDates
    /\ gender \in Gender
    /\ clock \in ClockReadings(3)
    /\ lengthArg = NaN /\ data = NoTable /\ entryArg = Null

InitAge ==
    /\ NotCalled
    /\ \/ InitSelector
       \/ InitEvaluateWeightSinceBirth
       \/ InitEvaluateLengthOrHeightForAge
    /\ Loaded

Returned(sel, e, r) ==
    /\ pc' = "done"
    /\ selected' = sel
    /\ entry' = e
    /\ result' = r
    /\ UNCHANGED Args

\* A selector's result as a result record: the dataset's name, or undefined.
DatasetValue(ref) == IF ref = NoTable THEN Value(Undefined) ELSE Value(ref.name)

GetWeightForLengthByBirthDate ==
    /\ pc = "ready" /\ op = "getWeightForLengthByBirthDate"
    /\ LET d == getWeightForLengthByBirthDate(birthDate, gender, clock[1])
       IN  Returned(d, Null, DatasetValue(d))

GetLengthOrHeightForAgeType ==
    /\ pc = "ready" /\ op = "getLengthOrHeightForAgeType"
    /\ Returned(NoTable, Null, getLengthOrHeightForAgeType(birthDate, clock[1]))

GetLengthForAgeDataset ==
    /\ pc = "ready" /\ op = "getLengthForAgeDataset"
    /\ LET d == getLengthForAgeDataset(birthDate, gender, clock[1])
       IN  Returned(d, Null, DatasetValue(d))

GetHeightForAgeDataset ==
    /\ pc = "ready" /\ op = "getHeightForAgeDataset"
    /\ LET d == getHeightForAgeDataset(birthDate, gender, clock[1])
       IN  Returned(d, Null, DatasetValue(d))

GetLengthOrHeightForAgeDataset ==
    /\ pc = "ready" /\ op = "getLengthOrHeightForAgeDataset"
    /\ LET d == getLengthOrHeightForAgeDataset(birthDate, gender, clock)
           ref == IF d.lengthForAge # NoTable THEN d.lengthForAge ELSE d.heightForAge
       IN  Returned(ref, Null, DatasetValue(ref))

GetWeightForAgeDataset ==
    /\ pc = "ready" /\ op = "getWeightForAgeDataset"
    /\ LET d == getWeightForAgeDataset(birthDate, gender, clock[1])
       IN  Returned(d.data, Null,
                    IF d.data = NoTable THEN Value(Undefined)
                    ELSE [kind |-> "value", status |-> d.data.name, message |-> d.type])

EvaluateWeightSinceBirth ==
    /\ pc = "ready" /\ op = "evaluateWeightSinceBirth"
    /\ LET d == getWeightForLengthByBirthDate(birthDate, gender, clock[1])
       IN  Returned(d,
                    IF d = NoTable THEN Null ELSE findWeightForLengthEntry(lengthArg, Table(d)),
                    evaluateWeightSinceBirth(measurement, lengthArg, birthDate, gender, clock[1]))

EvaluateLengthOrHeightForAge ==
    /\ pc = "ready" /\ op = "evaluateLengthOrHeightForAge"
    /\ Returned(selectedByEvaluateLengthOrHeightForAge(birthDate, gender, clock),
                entryOfEvaluateLengthOrHeightForAge(birthDate, gender, clock),
                evaluateLengthOrHeightForAge(measurement, birthDate, gender, clock))

EvaluateLengthHeightForAge ==
    /\ pc = "ready" /\ op = "evaluateLengthHeightForAge"
    /\ LET lengthForAge == getLengthForAgeDataset(birthDate, gender, clock[1])
           heightForAge == getHeightForAgeDataset(birthDate, gender, clock[2])
       IN  Returned(IF lengthForAge # NoTable THEN lengthForAge ELSE heightForAge,
                    IF lengthForAge # NoTable
                    THEN findLengthForAgeEntryByDateOfBirth(birthDate, Table(lengthForAge),
                                                            clock[3])
                    ELSE IF heightForAge # NoTable
                    THEN findHeightForAgeEntryByDateOfBirth(birthDate, Table(heightForAge),
                                                            clock[3])
                    ELSE Null,
                    evaluateLengthHeightForAge(measurement, birthDate, gender, clock))

NextAge ==
    \/ GetWeightForLengthByBirthDate
    \/ GetLengthOrHeightForAgeType
    \/ GetLengthForAgeDataset
    \/ GetHeightForAgeDataset
    \/ GetLengthOrHeightForAgeDataset
    \/ GetWeightForAgeDataset
    \/ EvaluateWeightSinceBirth
    \/ EvaluateLengthOrHeightForAge
    \/ EvaluateLengthHeightForAge

SpecAge == InitAge /\ [][NextAge]_vars

-----------------------------------------------------------------------------
(* The date arithmetic called on its own *)

\* The most days between the birth date and the evaluation date.
MaxElapsedDays == 430

\* Birth dates from 2023-12-01 to 2024-03-31: every day of month, the end of
\* a year and a leap day.
MathBirthDates == DateOf(2023, 11, 1)..DateOf(2024, 2, 31)

MathOps == {"calculateMonthsSinceBirth", "calculateWeeksBetweenDates"}

\* birthDate is birthDate / fromDate; clock[1] is the reading of new Date()
\* in calculateMonthsSinceBirth and the argument toDate of
\* calculateWeeksBetweenDates.
InitMath ==
    /\ NotCalled
    /\ op \in MathOps
    /\ birthDate \in MathBirthDates
    /\ \E e \in (0 - MaxFutureDays)..MaxElapsedDays : clock = <<birthDate + e>>
    /\ gender = NoGender
    /\ measurement = NaN /\ lengthArg = NaN /\ data = NoTable /\ entryArg = Null
    /\ Loaded

CalculateMonthsSinceBirth ==
    /\ pc = "ready" /\ op = "calculateMonthsSinceBirth"
    /\ Returned(NoTable, Null, Value(calculateMonthsSinceBirth(birthDate, clock[1])))

CalculateWeeksBetweenDates ==
    /\ pc = "ready" /\ op = "calculateWeeksBetweenDates"
    /\ Returned(NoTable, Null, Value(calculateWeeksBetweenDates(birthDate, clock[1])))

NextMath ==
    \/ CalculateMonthsSinceBirth
    \/ CalculateWeeksBetweenDates

SpecMath == InitMath /\ [][NextMath]_vars

-----------------------------------------------------------------------------
(* Successive calls on one table: lookups and the scales of its chart *)

\* calculateScales with getXValue = d.length and the seven curves: the
\* domains handed to the x and the y scale (before d3's nice()).  d3.min and
\* d3.max give undefined on an empty array, which ?? replaces by the default.
calculateScales(value, yPadding, defaultYMax) ==
    LET d3min(S) == IF S = {} THEN Null ELSE Some(CHOOSE x \in S : \A y \in S : Le(x, y))
        d3max(S) == IF S = {} THEN Null ELSE Some(CHOOSE x \in S : \A y \in S : Le(y, x))
        Coalesce(a, b) == IF IsNull(a) THEN b ELSE a[1]
        xValues == {value[i].length : i \in 1..Len(value)}
        allYValues == {y \in {Sds(value[i])[k] : i \in 1..Len(value), k \in 1..NumSd} : ~IsNaN(y)}
        xMin == Coalesce(d3min(xValues), Whole(0))
        xMax == Coalesce(d3max(xValues), Whole(100))
        yMin == Mul(Coalesce(d3min(allYValues), Whole(0)), Sub(Whole(1), yPadding))
        yMax == Mul(Coalesce(d3max(allYValues), defaultYMax), Add(Whole(1), yPadding))
    IN  [kind |-> "value", status |-> <<xMin, xMax>>, message |-> <<yMin, yMax>>]

\* The rows of the array after calculateScales: data.map and data.forEach
\* read the rows, push goes to the local allYValues.
dataAfterCalculateScales(value) == value

HeapOps == {"evaluateWeightForLength", "calculateScales"}

InitHeap ==
    /\ NotCalled
    /\ op \in HeapOps
    /\ data \in Tables \cup {Shipped("weightForLengthGirlBirthTo2Years")}
    /\ lengthArg \in Lengths
    /\ measurement = Rat(5, 2)
    /\ entryArg = Null
    /\ birthDate = NoDate /\ gender = NoGender /\ clock = <<>>
    /\ Loaded

CalculateScales ==
    /\ pc = "ready" /\ op = "calculateScales"
    /\ selected' = data
    /\ entry' = Null
    /\ result' = calculateScales(heap, Rat(5, 100), Whole(100))
    /\ heap' = dataAfterCalculateScales(heap)
    /\ pc' = "done"
    /\ UNCHANGED <<CallArgs, dom, ecosystem>>

\* The next call on the same array, which holds what the calls before left
\* in it.
NextCall ==
    /\ pc = "done"
    /\ pc' = "ready"
    /\ op' \in HeapOps
    /\ lengthArg' \in Lengths
    /\ selected' = NoTable
    /\ entry' = Null
    /\ result' = Value(Undefined)
    /\ UNCHANGED <<measurement, data, entryArg, birthDate, gender, clock, heap, dom, ecosystem>>

NextHeap ==
    \/ EvaluateWeightForLength
    \/ CalculateScales
    \/ NextCall

SpecHeap == InitHeap /\ [][NextHeap]_vars

-----------------------------------------------------------------------------------------------------------------------------------------------------
(* The LMS transforms.  Here a number may also be an infinity: x/0 and       *)
(* Math.log(0) are infinite in JavaScript, not NaN.  The sign of a zero is   *)
(* not modelled.  A power with a fractional exponent, and an exponential,    *)
(* is a real number that is no fraction: it is kept in the form              *)
(* c * b^x (<<c, b, x>>, c and x fractions, b a positive fraction or e), on  *)
(* which the functions compute as on real numbers.  The rounding of          *)
(* floating-point arithmetic is not modelled.                                *)

Infinity == <<1, 0>>

NegInfinity == <<-1, 0>>

\* e, named by its first digits; nothing is computed from them.
EulerE == <<271828, 100000>>

IsPower(a) == Len(a) = 3

\* c * b^x, as a fraction when it is one.
Power(c, b, x) ==
    IF x = Whole(0) \/ b = Whole(1) \/ c = Whole(0) THEN c
    ELSE IF x = Whole(1) /\ b # EulerE THEN Mul(c, b)
    ELSE <<c, b, x>>

IsFinite(a) == IsPower(a) \/ a[2] # 0

Sign(a) ==
    LET n == IF IsPower(a) THEN a[1][1] ELSE a[1]
    IN  IF n > 0 THEN 1 ELSE IF n < 0 THEN -1 ELSE 0

Signed(sg) == IF sg > 0 THEN Infinity ELSE IF sg < 0 THEN NegInfinity ELSE NaN

\* a * b
Times(a, b) ==
    IF a = NaN \/ b = NaN THEN NaN
    ELSE IF ~IsFinite(a) \/ ~IsFinite(b) THEN Signed(Sign(a) * Sign(b))
    ELSE IF IsPower(b) /\ ~IsPower(a) THEN Power(Mul(a, b[1]), b[2], b[3])
    ELSE IF IsPower(a) /\ ~IsPower(b) THEN Power(Mul(a[1], b), a[2], a[3])
    ELSE Mul(a, b)

\* a / b
Over(a, b) ==
    IF a = NaN \/ b = NaN THEN NaN
    ELSE IF IsFinite(a) /\ IsFinite(b)
         THEN IF Sign(b) = 0 THEN Signed(Sign(a))
              ELSE IF IsPower(a) /\ ~IsPower(b) THEN Power(Div(a[1], b), a[2], a[3])
              ELSE Div(a, b)
    ELSE IF IsFinite(b) THEN Signed(Sign(a) * (IF Sign(b) < 0 THEN -1 ELSE 1))
    ELSE IF IsFinite(a) THEN Whole(0)
    ELSE NaN

\* a + b
Plus(a, b) ==
    IF a = NaN \/ b = NaN THEN NaN
    ELSE IF IsFinite(a) /\ IsFinite(b) THEN Add(a, b)
    ELSE IF IsFinite(b) THEN a
    ELSE IF IsFinite(a) THEN b
    ELSE IF a = b THEN a ELSE NaN

\* a <= 0 ; false for NaN
LeZero(a) == a # NaN /\ Sign(a) <= 0

\* Math.abs(l) < 1e-10 for a finite l = n/d:  |n| * 10^10 < d.
AbsBelow1e10(l) == Abs(l[1]) * 100000 <= (l[2] - 1) \div 100000

\* Math.log.  Exact at 0, 1, the special values and on an exponential; at 2
\* and 1/2 rounded to three decimals.  No other argument occurs.
Math_log(a) ==
    CASE a = NaN -> NaN
      [] a # NaN /\ Sign(a) < 0 -> NaN
      [] a = Whole(0) -> NegInfinity
      [] a = Infinity -> Infinity
      [] a = Whole(1) -> Whole(0)
      [] a = Whole(2) -> Rat(693, 1000)
      [] a = Rat(1, 2) -> Rat(-693, 1000)
      [] IsPower(a) /\ a[1] = Whole(1) /\ a[2] = EulerE -> a[3]

\* Math.exp of a finite number.
Math_exp(a) ==
    CASE a = NaN -> NaN
      [] a # NaN /\ IsFinite(a) /\ ~IsPower(a) -> Power(Whole(1), EulerE, a)

\* base^k for a finite base and k >= 0.
RECURSIVE IntPower(_, _)
IntPower(base, k) == IF k = 0 THEN Whole(1) ELSE Mul(base, IntPower(base, k - 1))

\* Math.pow(base, exponent) for a finite exponent: the power of a fraction
\* to a whole number is a fraction, the power of a positive number to a
\* fraction is kept as a power, and (b^x)^y = b^(x*y).  No other case occurs.
Math_pow(base, exponent) ==
    CASE exponent = Whole(0) -> Whole(1)
      [] exponent # Whole(0) /\ base = NaN -> NaN
      [] exponent # Whole(0) /\ IsPower(base) /\ base[1] = Whole(1) ->
            Power(Whole(1), base[2], Mul(base[3], exponent))
      [] exponent[2] # 1 /\ base # NaN /\ ~IsPower(base) /\ IsFinite(base) /\ Sign(base) > 0 ->
            Power(Whole(1), base, exponent)
      [] exponent[2] = 1 /\ exponent[1] > 0 /\ base # NaN /\ ~IsPower(base) ->
            IF IsFinite(base) THEN IntPower(base, exponent[1])
            ELSE IF base = Infinity \/ exponent[1] % 2 = 0 THEN Infinity ELSE NegInfinity
      [] exponent[2] = 1 /\ exponent[1] < 0 /\ base # NaN /\ ~IsPower(base) ->
            IF IsFinite(base) THEN Over(Whole(1), IntPower(base, -exponent[1]))
            ELSE Whole(0)

\* The function dividing by l where it divides by l * s.
calculateZScoreFromLMS_OverLambda(l, m, s, weight) ==
    IF AbsBelow1e10(l) THEN Over(Math_log(Over(weight, m)), s)
    ELSE LET ratio == Over(weight, m)
         IN  IF LeZero(ratio) THEN NaN
             ELSE Over(Plus(Math_pow(ratio, l), Whole(-1)), l)

calculateZScoreFromLMS(l, m, s, weight) ==
    IF AbsBelow1e10(l) THEN Over(Math_log(Over(weight, m)), s)
    ELSE LET ratio == Over(weight, m)
         IN  IF LeZero(ratio) THEN NaN
             ELSE LET powered == Math_pow(ratio, l)
                  IN  Over(Plus(powered, Whole(-1)), Times(l, s))

calculateWeightFromLMS(l, m, s, zScore) ==
    IF AbsBelow1e10(l) THEN Times(m, Math_exp(Times(s, zScore)))
    ELSE LET innerValue == Plus(Whole(1), Times(Times(l, s), zScore))
         IN  IF LeZero(innerValue) THEN NaN
             ELSE Times(m, Math_pow(innerValue, Over(Whole(1), l)))

LMSOps == {"calculateZScoreFromLMS", "calculateWeightFromLMS", "roundTrip"}

\* The (l, m, s) of a row.
LMSOf(row) == [l |-> row.l, m |-> row.m, s |-> row.s]

\* (l, m, s) of rows of the shipped tables: the weight-for-length rows
\* (l = -0.3833) and the height-for-age rows (l = 1), and a row of lambda 0.
ShippedLMS ==
    {LMSOf(weightForLengthGirlBirthTo2Years[i]) : i \in 1..Len(weightForLengthGirlBirthTo2Years)}
        \cup {LMSOf(heightForAgeGirl0To2Years[i]) : i \in {1, 13, 25}}
        \cup {[l |-> Whole(0), m |-> Rat(24607, 10000), s |-> Rat(9029, 100000)]}

ZScores == {Whole(z) : z \in -3..3}

\* The arguments: (l, m, s) in entryArg, the weight or the z-score in
\* measurement.  The lambdas are 0 and values whose powers are fractions.
InitLMS ==
    /\ NotCalled
    /\ op \in LMSOps
    /\ \/ /\ op = "calculateZScoreFromLMS"
          /\ \E l \in {Whole(0), Whole(1), Whole(-1), Whole(2)},
                m \in {Whole(-1), Whole(0), Whole(1), Whole(2)},
                s \in {Whole(0), Rat(1, 10), Rat(1, 2)} :
                entryArg = Some([l |-> l, m |-> m, s |-> s])
          /\ measurement \in {Whole(-1), Whole(0), Whole(1), Whole(2)}
       \/ /\ op = "calculateWeightFromLMS"
          /\ \E l \in {Whole(0), Whole(1), Whole(-1), Rat(1, 2)},
                m \in {Whole(0), Whole(10)},
                s \in {Whole(0), Rat(1, 10), Rat(1, 3), Rat(1, 2)} :
                entryArg = Some([l |-> l, m |-> m, s |-> s])
          /\ measurement \in {Whole(-3), Whole(0), Whole(3)}
       \/ /\ op = "roundTrip"
          /\ \E lms \in ShippedLMS : entryArg = Some(lms)
          /\ measurement \in ZScores
    /\ lengthArg = NaN /\ data = NoTable
    /\ birthDate = NoDate /\ gender = NoGender /\ clock = <<>>
    /\ Loaded

CalculateZScoreFromLMS ==
    /\ pc = "ready" /\ op = "calculateZScoreFromLMS"
    /\ Returned(NoTable, Null,
                Value(calculateZScoreFromLMS(entryArg[1].l, entryArg[1].m, entryArg[1].s,
                                             measurement)))

CalculateWeightFromLMS ==
    /\ pc = "ready" /\ op = "calculateWeightFromLMS"
    /\ Returned(NoTable, Null,
                Value(calculateWeightFromLMS(entryArg[1].l, entryArg[1].m, entryArg[1].s,
                                             measurement)))

\* The weight of a z-score, and the z-score of that weight.  entry keeps the
\* weight.
RoundTrip ==
    /\ pc = "ready" /\ op = "roundTrip"
    /\ LET weight == calculateWeightFromLMS(entryArg[1].l, entryArg[1].m, entryArg[1].s,
                                            measurement)
       IN  Returned(NoTable, Some(weight),
                    Value(calculateZScoreFromLMS(entryArg[1].l, entryArg[1].m, entryArg[1].s,
                                                 weight)))

NextLMS ==
    \/ CalculateZScoreFromLMS
    \/ CalculateWeightFromLMS
    \/ RoundTrip

SpecLMS == InitLMS /\ [][NextLMS]_vars

-----------------------------------------------------------------------------
(* The charts.  The page has one container element, "#chart"; dom is the    *)
(* sequence of its child elements.  An element is its tag, its class, the   *)
(* attributes the options decide, and its child elements.  The geometry of  *)
(* the curves, axes and markers is not modelled.                            *)

Node(tag, class, attr, kids) == [tag |-> tag, class |-> class, attr |-> attr, kids |-> kids]

\* { ...a, ...b }
Spread(a, b) == [k \in DOMAIN a \cup DOMAIN b |-> IF k \in DOMAIN b THEN b[k] ELSE a[k]]

\* o.k, an empty object when o has no k (spreading undefined adds nothing).
Prop(o, k) == IF k \in DOMAIN o THEN o[k] ELSE <<>>

DEFAULT_OPTIONS ==
    [width |-> 800, height |-> 600, title |-> "Weight-for-length", subtitle |-> "",
     margins |-> [top |-> 60, right |-> 80, bottom |-> 60, left |-> 80],
     showGrid |-> TRUE, showLegend |-> TRUE,
     colors |-> [sd3neg |-> "#d73027", sd2neg |-> "#fc8d59", sd1neg |-> "#fee08b",
                 sd0 |-> "#3288bd", sd1 |-> "#fee08b", sd2 |-> "#fc8d59",
                 sd3 |-> "#d73027"]]

Z_SCORE_CURVES == <<"sd3neg", "sd2neg", "sd1neg", "sd0", "sd1", "sd2", "sd3">>

DEFAULT_POINT_OPTIONS == [radius |-> 5, tooltipText |-> "You are here"]

DEFAULT_GENERIC_POINT_OPTIONS ==
    [radius |-> 5, tooltipText |-> "You are here",
     pointClass |-> "growth-chart-data-point", tooltipClass |-> "growth-chart-tooltip"]

ErrEmptyData == "Data array cannot be empty"
ErrNoContainer == "Container element not found"
ErrNoChartWeightLength ==
    "No existing chart found. Please create a chart using d3js_weight_for_length first."
ErrNoChart == "No existing chart found. Please create a chart first."
ErrNoChartStructure == "Chart structure not found. Please ensure the chart was created correctly."

\* d3.select(container).node(): the selector "#chart" and the element itself
\* give the container, any other selector gives null.
ContainerFound(container) == container \in {"#chart", "element"}

\* The elements below the given ones, in document order.
RECURSIVE Descendants(_)
Descendants(nodes) ==
    IF nodes = <<>> THEN <<>>
    ELSE <<Head(nodes)>> \o Descendants(Head(nodes).kids) \o Descendants(Tail(nodes))

\* selection.select(tag): the first descendant with the tag, if any.
SelectTag(nodes, tag) ==
    LET found == SelectSeq(Descendants(nodes), LAMBDA n : n.tag = tag)
    IN  IF found = <<>> THEN Null ELSE Some(Head(found))

\* What is left of the elements after selectAll("." + class).remove().
RECURSIVE RemoveClass(_, _)
RemoveClass(nodes, class) ==
    IF nodes = <<>> THEN <<>>
    ELSE LET n == Head(nodes)
         IN  (IF n.class = class THEN <<>>
              ELSE <<[n EXCEPT !.kids = RemoveClass(n.kids, class)]>>)
                 \o RemoveClass(Tail(nodes), class)

\* The svg element d3js_weight_for_length builds from the merged options.
ChartSvg(config) ==
    LET stroke(key) == IF key \in DOMAIN config.colors THEN config.colors[key] ELSE "#000"
        grid == IF config.showGrid = TRUE
                THEN <<Node("g", "grid", <<>>, <<>>), Node("g", "grid", <<>>, <<>>)>>
                ELSE <<>>
        curves == [i \in 1..Len(Z_SCORE_CURVES) |->
                      Node("path", Z_SCORE_CURVES[i],
                           [stroke |-> stroke(Z_SCORE_CURVES[i])], <<>>)]
        axes == <<Node("g", "x-axis", <<>>, <<>>), Node("g", "y-axis", <<>>, <<>>)>>
        g == Node("g", "", [left |-> config.margins.left, top |-> config.margins.top],
                  grid \o curves \o axes)
        title == IF config.title # "" THEN <<Node("text", "", <<>>, <<>>)>> ELSE <<>>
        subtitle == IF config.subtitle # "" THEN <<Node("text", "", <<>>, <<>>)>> ELSE <<>>
        legend == IF config.showLegend = TRUE
                  THEN <<Node("g", "legend",
                              [left |-> config.width - config.margins.right + 10,
                               top |-> config.margins.top],
                              [i \in 1..Len(Z_SCORE_CURVES) |->
                                  Node("g", "",
                                       [stroke |-> stroke(Z_SCORE_CURVES[i])], <<>>)])>>
                  ELSE <<>>
    IN  Node("svg", "", [width |-> config.width, height |-> config.height],
             <<g>> \o title \o subtitle \o legend)

\* A call's effect: the container's children after it, and what it returned
\* or threw.
Effect(document, r) == [dom |-> document, result |-> r]

\* The function clearing the container before it validates its arguments.
d3js_weight_for_length_ClearsFirst(value, options, document) ==
    LET config == Spread(Spread(DEFAULT_OPTIONS, options),
                         [margins |-> Spread(DEFAULT_OPTIONS.margins, Prop(options, "margins")),
                          colors |-> Spread(DEFAULT_OPTIONS.colors, Prop(options, "colors"))])
    IN  IF ~ContainerFound(config.container) THEN Effect(document, Throw(ErrNoContainer))
        ELSE IF Len(value) = 0 THEN Effect(<<>>, Throw(ErrEmptyData))
        ELSE Effect(<<ChartSvg(config)>>, Value(Undefined))

\* The function taking a colors object of the caller as it is.
d3js_weight_for_length_ShallowColors(value, options, document) ==
    LET config == Spread(Spread(DEFAULT_OPTIONS, options),
                         [margins |-> Spread(DEFAULT_OPTIONS.margins, Prop(options, "margins"))])
    IN  IF Len(value) = 0 THEN Effect(document, Throw(ErrEmptyData))
        ELSE IF ~ContainerFound(config.container)
             THEN Effect(document, Throw(ErrNoContainer))
        ELSE Effect(<<ChartSvg(config)>>, Value(Undefined))

d3js_weight_for_length(value, options, document) ==
    LET config == Spread(Spread(DEFAULT_OPTIONS, options),
                         [margins |-> Spread(DEFAULT_OPTIONS.margins, Prop(options, "margins")),
                          colors |-> Spread(DEFAULT_OPTIONS.colors, Prop(options, "colors"))])
    IN  IF Len(value) = 0 THEN Effect(document, Throw(ErrEmptyData))
        ELSE IF ~ContainerFound(config.container)
             THEN Effect(document, Throw(ErrNoContainer))
        ELSE Effect(<<ChartSvg(config)>>, Value(Undefined))

\* The first element with the tag among the given ones.
FirstIndex(nodes, tag) ==
    CHOOSE i \in 1..Len(nodes) :
        nodes[i].tag = tag /\ \A j \in 1..(i - 1) : nodes[j].tag # tag

\* The container's children once the main group of its chart has the given
\* children.  The svg is a child of the container and the main group a
\* child of the svg, as d3js_weight_for_length builds them.
WithMainGroup(document, kids) ==
    LET i == FirstIndex(document, "svg")
        j == FirstIndex(document[i].kids, "g")
    IN  [document EXCEPT ![i].kids[j].kids = kids]

MainGroup(document) == SelectTag(SelectTag(document, "svg")[1].kids, "g")[1]

\* The tooltip group: arrow, background, text.
TooltipGroup(class, text) ==
    Node("g", class, <<>>,
         <<Node("path", "", <<>>, <<>>), Node("rect", "", <<>>, <<>>),
           Node("text", "", [text |-> text], <<>>)>>)

drawDataPoint(kids, pointConfig) ==
    Append(RemoveClass(kids, "weight-length-data-point"),
           Node("circle", "weight-length-data-point", [r |-> pointConfig.radius], <<>>))

drawTooltip(kids, tooltipText) ==
    Append(RemoveClass(kids, "weight-length-tooltip"),
           TooltipGroup("weight-length-tooltip", tooltipText))

\* The function drawing nothing, and not throwing, when the container holds
\* no chart.
d3js_weight_length_point_NoChartCheck(value, chartOptions, pointOptions, document) ==
    LET config == Spread(Spread(DEFAULT_OPTIONS, chartOptions),
                         [margins |-> Spread(DEFAULT_OPTIONS.margins,
                                             Prop(chartOptions, "margins"))])
        pointConfig == Spread(DEFAULT_POINT_OPTIONS, pointOptions)
    IN  IF Len(value) = 0 THEN Effect(document, Throw(ErrEmptyData))
        ELSE IF ~ContainerFound(config.container)
             THEN Effect(document, Throw(ErrNoContainer))
        ELSE IF SelectTag(document, "svg") = Null
             THEN Effect(document, Value(Undefined))
        ELSE IF SelectTag(SelectTag(document, "svg")[1].kids, "g") = Null
             THEN Effect(document, Throw(ErrNoChartStructure))
        ELSE Effect(WithMainGroup(document,
                                  drawTooltip(drawDataPoint(MainGroup(document).kids,
                                                            pointConfig),
                                              pointConfig.tooltipText)),
                    Value(Undefined))

\* The marker's place on the chart (the scales, the tooltip's position) is
\* left out of the elements: only the elements and their classes are kept.
d3js_weight_length_point(value, chartOptions, pointOptions, document) ==
    LET config == Spread(Spread(DEFAULT_OPTIONS, chartOptions),
                         [margins |-> Spread(DEFAULT_OPTIONS.margins,
                                             Prop(chartOptions, "margins"))])
        pointConfig == Spread(DEFAULT_POINT_OPTIONS, pointOptions)
    IN  IF Len(value) = 0 THEN Effect(document, Throw(ErrEmptyData))
        ELSE IF ~ContainerFound(config.container)
             THEN Effect(document, Throw(ErrNoContainer))
        ELSE IF SelectTag(document, "svg") = Null
             THEN Effect(document, Throw(ErrNoChartWeightLength))
        ELSE IF SelectTag(SelectTag(document, "svg")[1].kids, "g") = Null
             THEN Effect(document, Throw(ErrNoChartStructure))
        ELSE Effect(WithMainGroup(document,
                                  drawTooltip(drawDataPoint(MainGroup(document).kids,
                                                            pointConfig),
                                              pointConfig.tooltipText)),
                    Value(Undefined))

drawGenericDataPoint(kids, pointConfig) ==
    Append(RemoveClass(kids, pointConfig.pointClass),
           Node("circle", pointConfig.pointClass, [r |-> pointConfig.radius], <<>>))

drawGenericTooltip(kids, tooltipText, tooltipClass) ==
    Append(RemoveClass(kids, tooltipClass), TooltipGroup(tooltipClass, tooltipText))

\* The function leaving the marker and the tooltip of the call before in
\* place.
d3js_growth_chart_point_KeepsPrevious(value, chartOptions, pointOptions, document) ==
    LET pointConfig == Spread(DEFAULT_GENERIC_POINT_OPTIONS, pointOptions)
    IN  IF Len(value) = 0 THEN Effect(document, Throw(ErrEmptyData))
        ELSE IF ~ContainerFound(chartOptions.container)
             THEN Effect(document, Throw(ErrNoContainer))
        ELSE IF SelectTag(document, "svg") = Null
             THEN Effect(document, Throw(ErrNoChart))
        ELSE IF SelectTag(SelectTag(document, "svg")[1].kids, "g") = Null
             THEN Effect(document, Throw(ErrNoChartStructure))
        ELSE Effect(WithMainGroup(document,
                        MainGroup(document).kids
                           \o <<Node("circle", pointConfig.pointClass,
                                     [r |-> pointConfig.radius], <<>>),
                                TooltipGroup(pointConfig.tooltipClass,
                                             pointConfig.tooltipText)>>),
                    Value(Undefined))

d3js_growth_chart_point(value, chartOptions, pointOptions, document) ==
    LET pointConfig == Spread(DEFAULT_GENERIC_POINT_OPTIONS, pointOptions)
    IN  IF Len(value) = 0 THEN Effect(document, Throw(ErrEmptyData))
        ELSE IF ~ContainerFound(chartOptions.container)
             THEN Effect(document, Throw(ErrNoContainer))
        ELSE IF SelectTag(document, "svg") = Null
             THEN Effect(document, Throw(ErrNoChart))
        ELSE IF SelectTag(SelectTag(document, "svg")[1].kids, "g") = Null
             THEN Effect(document, Throw(ErrNoChartStructure))
        ELSE Effect(WithMainGroup(document,
                        drawGenericTooltip(
                            drawGenericDataPoint(MainGroup(document).kids, pointConfig),
                            pointConfig.tooltipText, pointConfig.tooltipClass)),
                    Value(Undefined))

ChartData == {NoTable, Shipped("weightForLengthGirlBirthTo2Years")}

Containers == {"#chart", "element", "#non-existent-element"}

\* The options objects of the chart calls: the container, and any of the
\* other options given or left out.
ChartOptions ==
    {Spread(Spread(Spread(Spread([container |-> c], w), g), cs), ms) :
        c \in Containers,
        w \in {<<>>, [width |-> 1000, height |-> 800, showLegend |-> FALSE]},
        g \in {<<>>, [showGrid |-> FALSE], [showGrid |-> TRUE]},
        cs \in {<<>>, [colors |-> [sd0 |-> "#ff0000", sd1 |-> "#00ff00"]]},
        ms \in {<<>>, [margins |-> [left |-> 100]]}}

\* What the container holds before the first call: nothing, or a paragraph.
InitialDocuments == {<<>>, <<Node("p", "", <<>>, <<>>)>>}

\* The options of the point calls: the chart options name the container;
\* the generic function is given the classes of its marker or not.
PointChartOptions == {[container |-> c] : c \in Containers}

PointOptions == {<<>>, [pointClass |-> "my-point", tooltipClass |-> "my-tooltip"]}

ChartOps == {"d3js_weight_for_length", "d3js_weight_length_point", "d3js_growth_chart_point"}

\* The arguments of a chart call: the data, the options in entryArg.
ChartCall(o, d, e) ==
    /\ o \in ChartOps
    /\ d \in ChartData
    /\ o = "d3js_weight_for_length" => \E co \in ChartOptions : e = Some(co)
    /\ o = "d3js_weight_length_point" =>
          \E co \in PointChartOptions : e = Some([chartOptions |-> co, pointOptions |-> <<>>])
    /\ o = "d3js_growth_chart_point" =>
          \E co \in PointChartOptions, po \in PointOptions :
             e = Some([chartOptions |-> co, pointOptions |-> po])

InitChart ==
    /\ pc = "ready"
    /\ selected = NoTable /\ entry = Null /\ result = Value(Undefined)
    /\ ChartCall(op, data, entryArg)
    /\ measurement = Rat(5, 2) /\ lengthArg = Whole(45)
    /\ birthDate = NoDate /\ gender = NoGender /\ clock = <<>>
    /\ dom \in InitialDocuments
    /\ ecosystem = InitialEcosystem
    /\ Loaded

\* A call's effect takes place and the call ends.
Drawn(effect) ==
    /\ pc' = "done"
    /\ dom' = effect.dom
    /\ result' = effect.result
    /\ UNCHANGED <<CallArgs, heap, selected, entry, ecosystem>>

D3jsWeightForLength ==
    /\ pc = "ready" /\ op = "d3js_weight_for_length"
    /\ Drawn(d3js_weight_for_length(heap, entryArg[1], dom))

\* The next call on the page.
NextChartCall ==
    /\ pc = "done"
    /\ pc' = "ready"
    /\ ChartCall(op', data', entryArg')
    /\ heap' = Table(data')
    /\ result' = Value(Undefined)
    /\ UNCHANGED <<measurement, lengthArg, birthDate, gender, clock, selected, entry, dom,
                   ecosystem>>

D3jsWeightLengthPoint ==
    /\ pc = "ready" /\ op = "d3js_weight_length_point"
    /\ Drawn(d3js_weight_length_point(heap, entryArg[1].chartOptions,
                                      entryArg[1].pointOptions, dom))

D3jsGrowthChartPoint ==
    /\ pc = "ready" /\ op = "d3js_growth_chart_point"
    /\ Drawn(d3js_growth_chart_point(heap, entryArg[1].chartOptions,
                                     entryArg[1].pointOptions, dom))

NextChart ==
    \/ D3jsWeightForLength
    \/ D3jsWeightLengthPoint
    \/ D3jsGrowthChartPoint
    \/ NextChartCall

SpecChart == InitChart /\ [][NextChart]_vars

-----------------------------------------------------------------------------
(* The tooltip of a marker.  Positions and sizes are whole pixels.           *)

calculateTooltipPosition(circleX, circleY, circleRadius, innerWidth, innerHeight) ==
    LET tooltipPadding == 12
        tooltipWidth == 100
        tooltipHeight == 40
        arrowSize == 8
        distanceFromCircle == circleRadius + tooltipPadding
        \* above the circle, or below it when that is off the top
        x0 == circleX - tooltipWidth \div 2
        y0 == circleY - tooltipHeight - distanceFromCircle
        y1 == IF y0 < 0 THEN circleY + distanceFromCircle ELSE y0
        side1 == IF y0 < 0 THEN "top" ELSE "bottom"
        \* off the left edge
        right == circleX + distanceFromCircle
        left == circleX - tooltipWidth - distanceFromCircle
        x1 == IF x0 < 0 THEN (IF right + tooltipWidth > innerWidth THEN left ELSE right)
              ELSE x0
        side2 == IF x0 < 0 THEN (IF right + tooltipWidth > innerWidth THEN "right" ELSE "left")
                 ELSE side1
        \* off the right edge
        x2 == IF x1 + tooltipWidth > innerWidth THEN (IF left < 0 THEN right ELSE left)
              ELSE x1
        side3 == IF x1 + tooltipWidth > innerWidth
                 THEN (IF left < 0 THEN "left" ELSE "right")
                 ELSE side2
        \* off the bottom
        y2 == IF y1 + tooltipHeight > innerHeight
              THEN circleY - tooltipHeight - distanceFromCircle
              ELSE y1
        side4 == IF y1 + tooltipHeight > innerHeight THEN "bottom" ELSE side3
        \* final bounds check
        x3 == IF x2 < 0 THEN 5 ELSE x2
        x4 == IF x3 + tooltipWidth > innerWidth THEN innerWidth - tooltipWidth - 5 ELSE x3
        y3 == IF y2 < 0 THEN 5 ELSE y2
        y4 == IF y3 + tooltipHeight > innerHeight THEN innerHeight - tooltipHeight - 5 ELSE y3
    IN  [tooltipX |-> x4, tooltipY |-> y4, tooltipWidth |-> tooltipWidth,
         tooltipHeight |-> tooltipHeight, arrowSize |-> arrowSize, arrowSide |-> side4,
         circleX |-> circleX, circleY |-> circleY]

\* The inner sizes: of the default chart (800 x 600 less the margins), and
\* of charts about as small as the tooltip.
InnerWidths == {100, 105, 640}

InnerHeights == {40, 45, 480}

\* The circle positions: every fifth pixel from outside one edge of the
\* chart area to outside the other.
Positions(size) == {5 * k : k \in -4..(size \div 5 + 4)}

InitTooltip ==
    /\ NotCalled
    /\ op = "calculateTooltipPosition"
    /\ \E w \in InnerWidths, h \in InnerHeights :
          \E x \in Positions(w), y \in Positions(h) :
             entryArg = Some([circleX |-> x, circleY |-> y, circleRadius |-> 5,
                              innerWidth |-> w, innerHeight |-> h])
    /\ measurement = NaN /\ lengthArg = NaN /\ data = NoTable
    /\ birthDate = NoDate /\ gender = NoGender /\ clock = <<>>
    /\ Loaded

CalculateTooltipPosition ==
    /\ pc = "ready" /\ op = "calculateTooltipPosition"
    /\ Returned(NoTable, Null,
                Value(calculateTooltipPosition(entryArg[1].circleX, entryArg[1].circleY,
                                               entryArg[1].circleRadius,
                                               entryArg[1].innerWidth,
                                               entryArg[1].innerHeight)))

SpecTooltip == InitTooltip /\ [][CalculateTooltipPosition]_vars

-----------------------------------------------------------------------------
(* Presentation state: the atoms derived from a submitted request, and the  *)
(* position of the marker the chart hooks draw.  An atom that reads another *)
(* atom evaluates it first; a throw of the inner atom leaves the outer one  *)
(* by the same throw.                                                       *)

\* Result.ok(value)
ResultOk(v) == [kind |-> "Result.ok", status |-> v, message |-> None]

\* errorToResult(e) for a caught Error e: Result.err(e).
errorToResult(e) == [kind |-> "Result.err", status |-> None, message |-> e.message]

\* try { return Result.ok(call) } catch (error) { return errorToResult(error) }
tryResult(r) == IF r.kind = "error" THEN errorToResult(r) ELSE ResultOk(r.status)

\* The units of the x-axes.
AxisWeeks == "weeks"

AxisMonths == "months"

AxisLength == "length (cm)"

\* The marker of a chart: xValue, on an axis of the given unit.
Marker(xValue, axis) == [kind |-> "value", status |-> xValue, message |-> axis]

lengthOrHeightEvaluationStatusAtom(lengthOrHeight, dateOfBirth, gender_, clk) ==
    tryResult(evaluateLengthOrHeightForAge(lengthOrHeight, dateOfBirth, gender_, clk))

lengthOrHeightForAgeTypeAtom(dateOfBirth, now) == getLengthOrHeightForAgeType(dateOfBirth, now)

\* The dataset the atom holds, when the type atom did not throw.
datasetOfLengthOrHeightDatasetAtom(type, dateOfBirth, gender_, today) ==
    IF type = TypeLength
    THEN getLengthForAgeDataset(dateOfBirth, gender_, today)
    ELSE getHeightForAgeDataset(dateOfBirth, gender_, today)

\* clk: the reading of the type atom, then that of the dataset selector.
lengthOrHeightDatasetAtom(dateOfBirth, gender_, clk) ==
    LET lengthOrHeightForAgeType == lengthOrHeightForAgeTypeAtom(dateOfBirth, clk[1])
    IN  IF lengthOrHeightForAgeType.kind = "error" THEN lengthOrHeightForAgeType
        ELSE DatasetValue(datasetOfLengthOrHeightDatasetAtom(lengthOrHeightForAgeType.status,
                                                              dateOfBirth, gender_, clk[2]))

\* clk: the readings of the type atom, of the dataset selector and of
\* calculateMonthsSinceBirth.  The result is the marker that
\* useD3JsLengthOrHeightForAge draws from the options: xValue = currentAge, on
\* the axis of weeks (getXValue = d.week) for the type Length and of months
\* (getXValue = d.month) for the type Height.
lengthOrHeightForAgeD3jsChartOptionsAtom(dateOfBirth, gender_, clk) ==
    LET data_ == lengthOrHeightDatasetAtom(dateOfBirth, gender_, clk)
    IN  IF data_.kind = "error" THEN data_
        ELSE IF data_ = Value(Undefined) THEN Value(Undefined)
        ELSE Marker(calculateMonthsSinceBirth(dateOfBirth, clk[3]),
                    IF lengthOrHeightForAgeTypeAtom(dateOfBirth, clk[1]).status = TypeLength
                    THEN AxisWeeks ELSE AxisMonths)

weightStatusAtom(weight, len, dateOfBirth, gender_, today) ==
    tryResult(evaluateWeightSinceBirth(weight, len, dateOfBirth, gender_, today))

weightForLengthDataAtom(dateOfBirth, gender_, today) ==
    getWeightForLengthByBirthDate(dateOfBirth, gender_, today)

\* null when there is no dataset, else the options, which hold the dataset.
weightForLengthD3jsChartOptionsAtom(dateOfBirth, gender_, today) ==
    weightForLengthDataAtom(dateOfBirth, gender_, today)

weightForAgeDatasetAtom(dateOfBirth, gender_, today) ==
    getWeightForAgeDataset(dateOfBirth, gender_, today)

\* undefined when there is no dataset, else the options, which hold the
\* dataset, dateOfBirth and currentWeight.
weightForAgeD3jsChartOptionsAtom(dateOfBirth, gender_, today) ==
    weightForAgeDatasetAtom(dateOfBirth, gender_, today)

\* useD3JsWeightForAge: currentAge, and the axis of the chart it is drawn on.
\* type is data.type, now the hook's reading of the clock.
currentAgeOfWeightForAge(type, dateOfBirth, now) ==
    IF type = TypeLength
    THEN Marker(calculateWeeksBetweenDates(dateOfBirth, now), AxisWeeks)
    ELSE Marker(calculateMonthsSinceBirth(dateOfBirth, now), AxisMonths)

\* d3js_weight_length_point: xValue = length, getXValue = d.length.
weightLengthPointXValue(len) == Marker(len, AxisLength)

AtomOps1 ==
    {"lengthOrHeightForAgeTypeAtom", "weightForLengthDataAtom",
     "weightForLengthD3jsChartOptionsAtom", "weightForAgeDatasetAtom",
     "weightForAgeD3jsChartOptionsAtom"}

\* The request atoms hold a submitted request: its fields are the arguments.
InitUI ==
    /\ NotCalled
    /\ birthDate \in BirthDates
    /\ gender \in Gender
    /\ data = NoTable /\ entryArg = Null
    /\ \/ /\ op = "lengthOrHeightEvaluationStatusAtom"
          /\ measurement \in AgeMeasurements /\ lengthArg = NaN
          /\ clock \in ClockReadings(3)
       \/ /\ op \in AtomOps1
          /\ measurement = NaN /\ lengthArg = NaN
          /\ clock \in ClockReadings(1)
       \/ /\ op = "lengthOrHeightDatasetAtom"
          /\ measurement = NaN /\ lengthArg = NaN
          /\ clock \in ClockReadings(2)
       \/ /\ op = "lengthOrHeightForAgeD3jsChartOptionsAtom"
          /\ measurement = Rat(553, 10) /\ lengthArg = NaN
          /\ clock \in ClockReadings(3)
       \/ /\ op = "weightStatusAtom"
          /\ measurement \in AgeWeights /\ lengthArg \in AgeLengths
          /\ clock \in ClockReadings(1)
       \/ /\ op = "useD3JsWeightForAge"
          /\ measurement = Rat(25, 10) /\ lengthArg = NaN
          /\ clock \in ClockReadings(2)
       \/ /\ op = "useD3JsWeightForLength"
          /\ measurement = Rat(25, 10) /\ lengthArg \in AgeLengths
          /\ clock \in ClockReadings(1)
    /\ Loaded

LengthOrHeightEvaluationStatusAtom ==
    /\ pc = "ready" /\ op = "lengthOrHeightEvaluationStatusAtom"
    /\ Returned(selectedByEvaluateLengthOrHeightForAge(birthDate, gender, clock),
                entryOfEvaluateLengthOrHeightForAge(birthDate, gender, clock),
                lengthOrHeightEvaluationStatusAtom(measurement, birthDate, gender, clock))

LengthOrHeightForAgeTypeAtom ==
    /\ pc = "ready" /\ op = "lengthOrHeightForAgeTypeAtom"
    /\ Returned(NoTable, Null, lengthOrHeightForAgeTypeAtom(birthDate, clock[1]))

LengthOrHeightDatasetAtom ==
    /\ pc = "ready" /\ op = "lengthOrHeightDatasetAtom"
    /\ Returned(selectedByEvaluateLengthOrHeightForAge(birthDate, gender, clock), Null,
                lengthOrHeightDatasetAtom(birthDate, gender, clock))

LengthOrHeightForAgeD3jsChartOptionsAtom ==
    /\ pc = "ready" /\ op = "lengthOrHeightForAgeD3jsChartOptionsAtom"
    /\ Returned(selectedByEvaluateLengthOrHeightForAge(birthDate, gender, clock), Null,
                lengthOrHeightForAgeD3jsChartOptionsAtom(birthDate, gender, clock))

WeightStatusAtom ==
    /\ pc = "ready" /\ op = "weightStatusAtom"
    /\ LET d == getWeightForLengthByBirthDate(birthDate, gender, clock[1])
       IN  Returned(d,
                    IF d = NoTable THEN Null ELSE findWeightForLengthEntry(lengthArg, Table(d)),
                    weightStatusAtom(measurement, lengthArg, birthDate, gender, clock[1]))

WeightForLengthDataAtom ==
    /\ pc = "ready" /\ op = "weightForLengthDataAtom"
    /\ LET d == weightForLengthDataAtom(birthDate, gender, clock[1])
       IN  Returned(d, Null, DatasetValue(d))

WeightForLengthD3jsChartOptionsAtom ==
    /\ pc = "ready" /\ op = "weightForLengthD3jsChartOptionsAtom"
    /\ LET d == weightForLengthD3jsChartOptionsAtom(birthDate, gender, clock[1])
       IN  Returned(d, Null, DatasetValue(d))

WeightForAgeDatasetAtom ==
    /\ pc = "ready" /\ op = "weightForAgeDatasetAtom"
    /\ LET d == weightForAgeDatasetAtom(birthDate, gender, clock[1])
       IN  Returned(d.data, Null, DatasetValue(d.data))

WeightForAgeD3jsChartOptionsAtom ==
    /\ pc = "ready" /\ op = "weightForAgeD3jsChartOptionsAtom"
    /\ LET d == weightForAgeD3jsChartOptionsAtom(birthDate, gender, clock[1])
       IN  Returned(d.data, Null, DatasetValue(d.data))

\* The chart is rendered only when the options atom holds a dataset.
UseD3JsWeightForAge ==
    /\ pc = "ready" /\ op = "useD3JsWeightForAge"
    /\ LET d == weightForAgeD3jsChartOptionsAtom(birthDate, gender, clock[1])
       IN  Returned(d.data, Null,
                    IF d.data = NoTable THEN Value(Undefined)
                    ELSE currentAgeOfWeightForAge(d.type, birthDate, clock[2]))

UseD3JsWeightForLength ==
    /\ pc = "ready" /\ op = "useD3JsWeightForLength"
    /\ LET d == weightForLengthD3jsChartOptionsAtom(birthDate, gender, clock[1])
       IN  Returned(d,
                    IF d = NoTable THEN Null ELSE findWeightForLengthEntry(lengthArg, Table(d)),
                    IF d = NoTable THEN Value(Undefined) ELSE weightLengthPointXValue(lengthArg))

NextUI ==
    \/ LengthOrHeightEvaluationStatusAtom
    \/ LengthOrHeightForAgeTypeAtom
    \/ LengthOrHeightDatasetAtom
    \/ LengthOrHeightForAgeD3jsChartOptionsAtom
    \/ WeightStatusAtom
    \/ WeightForLengthDataAtom
    \/ WeightForLengthD3jsChartOptionsAtom
    \/ WeightForAgeDatasetAtom
    \/ WeightForAgeD3jsChartOptionsAtom
    \/ UseD3JsWeightForAge
    \/ UseD3JsWeightForLength

SpecUI == InitUI /\ [][NextUI]_vars

-----------------------------------------------------------------------------
(* The evaluation form: a submission sets the request atoms, and the status *)
(* atoms derived from them are evaluated again.                             *)

\* Dates of birth of the form: a child of 8 weeks, of 13 months, of 2 years
\* and 9 months, one older than 5 years, one born tomorrow.
FormBirthDates == {Today - 60, Today - 400, Today - 1000, Today - MaxAgeDays, Today + 1}

\* What the form hands to onSubmit.
WeightLengthFormData ==
    {[weight |-> w, length |-> l, DateOfBirth |-> d, gender |-> g] :
        w \in AgeWeights, l \in AgeLengths, d \in FormBirthDates, g \in Gender}

\* The readings of the clock while the atoms are evaluated after a
\* submission: of weightStatusAtom, then of lengthOrHeightEvaluationStatusAtom.
FormClocks == {<<t, t, t, t>> : t \in Today..(Today + MaxClockAdvance)}

\* The value of weightStatusAtom for the value of weightEvaluationRequestAtom.
weightStatusOf(weightEvaluation, today) ==
    IF IsNull(weightEvaluation) THEN Value(Undefined)
    ELSE weightStatusAtom(weightEvaluation[1].weight, weightEvaluation[1].length,
                          weightEvaluation[1].dateOfBirth, weightEvaluation[1].gender, today)

\* The value of lengthOrHeightEvaluationStatusAtom for the value of
\* lengthOrHeightEvaluationRequestAtom.
lengthOrHeightEvaluationStatusOf(lengthOrHeightEvaluationRequest, clk) ==
    IF IsNull(lengthOrHeightEvaluationRequest) THEN Value(Undefined)
    ELSE lengthOrHeightEvaluationStatusAtom(lengthOrHeightEvaluationRequest[1].lengthOrHeight,
                                            lengthOrHeightEvaluationRequest[1].dateOfBirth,
                                            lengthOrHeightEvaluationRequest[1].gender, clk)

\* The atoms for the given values of the request atoms.
Evaluated(weightEvaluation, lengthOrHeightEvaluationRequest, weightForAgeEvaluationRequest,
          clk) ==
    [weightEvaluationRequestAtom |-> weightEvaluation,
     lengthOrHeightEvaluationRequestAtom |-> lengthOrHeightEvaluationRequest,
     weightForAgeEvaluationRequestAtom |-> weightForAgeEvaluationRequest,
     weightStatusAtom |-> weightStatusOf(weightEvaluation, clk[1]),
     lengthOrHeightEvaluationStatusAtom |->
        lengthOrHeightEvaluationStatusOf(lengthOrHeightEvaluationRequest, SubSeq(clk, 2, 4))]

\* The handler setting the weight requests only.
onSubmit_KeepsLengthRequest(formData, atoms, clk) ==
    Evaluated(Some([weight |-> formData.weight, length |-> formData.length,
                    dateOfBirth |-> formData.DateOfBirth, gender |-> formData.gender]),
              atoms.lengthOrHeightEvaluationRequestAtom,
              Some([weight |-> formData.weight, dateOfBirth |-> formData.DateOfBirth,
                    gender |-> formData.gender]),
              clk)

onSubmit(formData, atoms, clk) ==
    Evaluated(Some([weight |-> formData.weight, length |-> formData.length,
                    dateOfBirth |-> formData.DateOfBirth, gender |-> formData.gender]),
              Some([lengthOrHeight |-> formData.length, dateOfBirth |-> formData.DateOfBirth,
                    gender |-> formData.gender]),
              Some([weight |-> formData.weight, dateOfBirth |-> formData.DateOfBirth,
                    gender |-> formData.gender]),
              clk)

\* A submission: the form data in entryArg.
Submission(e, clk) ==
    /\ \E formData \in WeightLengthFormData : e = Some(formData)
    /\ clk \in FormClocks

InitForm ==
    /\ NotCalled
    /\ op = "onSubmit"
    /\ Submission(entryArg, clock)
    /\ measurement = NaN /\ lengthArg = NaN /\ data = NoTable
    /\ birthDate = NoDate /\ gender = NoGender
    /\ Loaded

OnSubmit ==
    /\ pc = "ready" /\ op = "onSubmit"
    /\ pc' = "done"
    /\ ecosystem' = onSubmit(entryArg[1], ecosystem, clock)
    /\ UNCHANGED <<CallArgs, heap, dom, selected, entry, result>>

\* The user submits the form again.
NextSubmission ==
    /\ pc = "done"
    /\ pc' = "ready"
    /\ Submission(entryArg', clock')
    /\ UNCHANGED <<op, measurement, lengthArg, data, birthDate, gender, selected, entry,
                   result, heap, dom, ecosystem>>

NextForm ==
    \/ OnSubmit
    \/ NextSubmission

SpecForm == InitForm /\ [][NextForm]_vars

-----------------------------------------------------------------------------
(* Vocabulary of the properties *)

\* Position of a status in the band order, 1 = BelowSd3Neg .. 8 = AboveSd3.
Rank(st) == CHOOSE k \in 1..Len(EvalulationStatus) : EvalulationStatus[k] = st

\* The call returned or threw.
Done == pc = "done"

\* The call is one of the three classifying evaluators and a row was resolved.
Classified ==
    /\ Done
    /\ op \in {"evaluateWeightForLength", "evaluateLengthAgainstEntry", "evaluateHeightAgainstEntry"}
    /\ ~IsNull(entry)
    /\ result.kind = "ok"

\* The rows of the table argument.
rows == Table(data)

\* The key of a table row.
Key(row) == row.length

\* Indices of the rows of the table argument below / above / at the length.
Below == {i \in 1..Len(rows) : Lt(Key(rows[i]), lengthArg)}

Above == {i \in 1..Len(rows) : Gt(Key(rows[i]), lengthArg)}

At == {i \in 1..Len(rows) : StrictEq(Key(rows[i]), lengthArg)}

Max(S) == CHOOSE x \in S : \A y \in S : x >= y

LookupDone == Done /\ op = "evaluateWeightForLength"

\* The numeric fields of a row other than its key.
NumericFields == {"l", "m", "s", "sd3neg", "sd2neg", "sd1neg", "sd0", "sd1", "sd2", "sd3"}

\* A row's boundaries are non-decreasing.
MonotoneRow(row) == \A k \in 1..(NumSd - 1) : Le(Sds(row)[k], Sds(row)[k + 1])

-----------------------------------------------------------------------------
(* C1: every evaluator returns the band of the first boundary, in the order  *)
(* sd3neg, sd2neg, sd1neg, sd0, sd1, sd2, sd3, that the measurement is       *)
(* strictly less than, and AboveSd3 when it is less than none of them.       *)
C1_FirstThresholdBand ==
    (Done /\ op \in {"evaluateWeightForLength", "evaluateLengthAgainstEntry",
                     "evaluateHeightAgainstEntry"} /\ ~IsNull(entry))
    => LET K == {k \in 1..NumSd : Lt(measurement, Sds(entry[1])[k])}
       IN  result = Ok(IF K = {} THEN AboveSd3 ELSE EvalulationStatus[Min(K)])

\* An interpolated row classified into a middle band.
C1_Witness ==
    /\ Classified /\ op = "evaluateWeightForLength"
    /\ Below # {} /\ Above # {} /\ At = {}
    /\ result.status = BetweenSd1NegAndSd0

(* C2: a measurement equal to boundary K is never classified at or below K;  *)
(* it is classified into the band directly above K whenever that band is not *)
(* empty (the next boundary is greater than K), and a measurement equal to   *)
(* sd3 is classified AboveSd3.                                               *)
C2_BoundaryTieBreak ==
    Classified =>
        \A k \in 1..NumSd :
            StrictEq(measurement, Sds(entry[1])[k]) =>
                /\ Rank(result.status) > k
                /\ (k = NumSd => result.status = AboveSd3)
                /\ (k < NumSd /\ Lt(Sds(entry[1])[k], Sds(entry[1])[k + 1]))
                       => result.status = EvalulationStatus[k + 1]

\* The test's case: weight 2.5 at 45 cm (sd0 = 2.5) is BetweenSd0AndSd1.
C2_Witness ==
    /\ Classified /\ data = Shipped("weightForLengthGirlBirthTo2Years")
    /\ lengthArg = Whole(45) /\ measurement = Rat(25, 10)
    /\ result.status = BetweenSd0AndSd1

(* C3: against the same resolved row a smaller measurement never gets a      *)
(* higher status than a larger one.                                          *)
C3_Monotonicity ==
    Classified =>
        \A b \in Weights \cup Measurements \cup ShippedWeights :
            Lt(measurement, b) =>
                Rank(result.status) <=
                    Rank(CASE op = "evaluateWeightForLength" ->
                                  evaluateWeightForLength(b, lengthArg, rows).status
                           [] op = "evaluateLengthAgainstEntry" ->
                                  evaluateLengthAgainstEntry(b, entry[1])
                           [] op = "evaluateHeightAgainstEntry" ->
                                  evaluateHeightAgainstEntry(b, entry[1]))

\* A measurement in a middle band of a by-week row, with larger and smaller
\* measurements in other bands.
C3_Witness ==
    /\ Classified /\ op = "evaluateLengthAgainstEntry"
    /\ result.status = BetweenSd0AndSd1
    /\ \E b \in Measurements :
           Lt(measurement, b) /\ evaluateLengthAgainstEntry(b, entry[1]) = AboveSd3

(* C4: a length strictly between two rows of the table resolves to a row     *)
(* with that length whose every numeric field f satisfies                    *)
(* f = lower.f + (upper.f - lower.f) * (length - lower.x) / (upper.x - lower.x) *)
(* for the largest row below and the smallest row above; rows at 45          *)
(* (sd0 = 2.5) and 45.5 (sd0 = 2.6) give sd0 = 2.55 at 45.25.                *)
C4_Interpolation ==
    (LookupDone /\ Below # {} /\ Above # {} /\ At = {}) =>
        LET lower == rows[Max(Below)]
            upper == rows[Min(Above)]
        IN  /\ ~IsNull(entry)
            /\ entry[1].length = lengthArg
            /\ \A f \in NumericFields :
                   Mul(Sub(entry[1][f], lower[f]), Sub(Key(upper), Key(lower)))
                       = Mul(Sub(upper[f], lower[f]), Sub(lengthArg, Key(lower)))
            /\ (data = Shipped("weightForLengthGirlBirthTo2Years") /\ lengthArg = Rat(181, 4))
                   => entry[1].sd0 = Rat(255, 100)

\* A three-row table queried off the midpoint of its last two rows, which
\* differ in shape.
C4_Witness ==
    /\ LookupDone /\ Len(rows) = 3 /\ lengthArg = Whole(5)
    /\ ~IsNull(entry) /\ entry[1].sd0 = Rat(7, 3) /\ entry[1].sd3 = Rat(10, 3)

(* C5: on a non-empty table a length below the first row resolves to the     *)
(* first row itself and a length above the last row to the last row itself;  *)
(* the evaluation returns a status.                                          *)
C5_EdgeClamping ==
    (LookupDone /\ Len(rows) > 0) =>
        /\ (Below = {} /\ Above # {} /\ At = {}) =>
               entry = Some(rows[1]) /\ result.kind = "ok"
        /\ (Above = {} /\ Below # {} /\ At = {}) =>
               entry = Some(rows[Len(rows)]) /\ result.kind = "ok"

\* A length above the last of three rows.
C5_Witness ==
    /\ LookupDone /\ Len(rows) = 3 /\ lengthArg = Whole(8)
    /\ entry = Some(rows[3]) /\ result.kind = "ok"

(* C6: a length equal to the key of a row resolves to that row itself, and   *)
(* the status is the one its published boundaries give.                      *)
C6_ExactMatch ==
    (LookupDone /\ At # {}) =>
        /\ entry = Some(rows[Min(At)])
        /\ LET K == {k \in 1..NumSd : Lt(measurement, Sds(rows[Min(At)])[k])}
           IN  result = Ok(IF K = {} THEN AboveSd3 ELSE EvalulationStatus[Min(K)])

\* The middle row of a three-row table.
C6_Witness ==
    /\ LookupDone /\ Len(rows) = 3 /\ lengthArg = Whole(4)
    /\ entry = Some(rows[2]) /\ result.kind = "ok"

(* C7: evaluating against an empty table throws "No data found for length"  *)
(* whatever the measurement and the length are.                              *)
C7_EmptyData ==
    (LookupDone /\ Len(rows) = 0) =>
        /\ result = Throw(ErrNoDataForLength)
        /\ IsNull(entry)

C7_Witness ==
    /\ LookupDone /\ rows = <<>> /\ measurement = Whole(2)
    /\ result.kind = "error"

(* C8: the resolved row, exact, interpolated or clamped, has non-decreasing *)
(* boundaries whenever every row of the table has.                           *)
C8_MonotoneBoundaries ==
    (LookupDone /\ ~IsNull(entry) /\ \A i \in 1..Len(rows) : MonotoneRow(rows[i]))
        => MonotoneRow(entry[1])

\* An interpolation between a row whose boundaries all differ from the next
\* row's in another place.
C8_Witness ==
    /\ LookupDone /\ ~IsNull(entry) /\ Below # {} /\ Above # {} /\ At = {}
    /\ Lt(entry[1].sd3neg, entry[1].sd0) /\ Lt(entry[1].sd0, entry[1].sd3)
    /\ rows[Max(Below)].sd3neg = rows[Max(Below)].sd0
    /\ rows[Min(Above)].sd0 = rows[Min(Above)].sd3

-----------------------------------------------------------------------------
(* Vocabulary of the properties on age *)

\* The child's age when the call first reads the clock.
AgeMonths == calculateMonthsSinceBirth(birthDate, clock[1])

AgeWeeks == calculateWeeksBetweenDates(birthDate, clock[1])

\* Every reading of the clock during the call falls on the same day.
SteadyClock == \A i \in 1..Len(clock) : clock[i] = clock[1]

DatasetSelectors ==
    {"getWeightForLengthByBirthDate", "getLengthForAgeDataset", "getHeightForAgeDataset",
     "getLengthOrHeightForAgeDataset", "getWeightForAgeDataset"}

ByWeekLengthDatasets == {"lengthForAgeGirl0To13Weeks", "lengthForAgeBoy0To13Weeks"}

ByMonthHeightDatasets ==
    {"heightForAgeGirl0To2Years", "heightForAgeBoy0To2Years", "heightForAgeGirl2To5Years",
     "heightForAgeBoy2To5Years"}

-----------------------------------------------------------------------------
(* C9: for a child older than 60 months every dataset selector returns      *)
(* undefined, never the table of the last bracket, and the evaluations by   *)
(* birth date throw their no-data error instead of returning a status:      *)
(* evaluateWeightSinceBirth "No data found for birth date",                 *)
(* evaluateLengthOrHeightForAge and getLengthOrHeightForAgeType "Age        *)
(* exceeds 5 years".                                                        *)
C9_NoDatasetBeyondLastBracket ==
    (Done /\ AgeMonths > 60) =>
        /\ selected = NoTable
        /\ IsNull(entry)
        /\ op \in DatasetSelectors => result = Value(Undefined)
        /\ op = "evaluateWeightSinceBirth" => result = Throw(ErrNoDataForBirthDate)
        /\ op \in {"evaluateLengthOrHeightForAge", "getLengthOrHeightForAgeType"}
               => result = Throw(ErrAgeExceeds)

\* A girl of exactly 61 months is weighed: no table, the no-data error.
C9_Witness ==
    /\ Done /\ op = "evaluateWeightSinceBirth" /\ gender = Female
    /\ AgeMonths = 61
    /\ selected = NoTable
    /\ result = Throw(ErrNoDataForBirthDate)

-----------------------------------------------------------------------------
(* C10: evaluateLengthOrHeightForAge returns a status for every age from    *)
(* birth to 60 months: it selects the by-week length dataset when the age   *)
(* is at most 13 weeks and a by-month height dataset for every older child  *)
(* up to and including 60 months.  Stated for calls during which the date   *)
(* does not change.  The code throws "Age exceeds 5 years" from 53 weeks    *)
(* on.                                                                      *)
C10_StatusFromBirthTo60Months ==
    (/\ Done /\ op = "evaluateLengthOrHeightForAge"
     /\ SteadyClock
     /\ birthDate <= clock[1] /\ AgeMonths <= 60) =>
        /\ result.kind = "ok"
        /\ AgeWeeks <= 13 => selected.name \in ByWeekLengthDatasets
        /\ AgeWeeks > 13 => selected.name \in ByMonthHeightDatasets

-----------------------------------------------------------------------------
(* Vocabulary of the properties on brackets *)

AgeDays == clock[1] - birthDate

\* The table of the given bracket for the sex of the call.
ForSex(girl, boy) == IF gender = Female THEN Shipped(girl) ELSE Shipped(boy)

-----------------------------------------------------------------------------
(* C11: the brackets are checked in ascending order and the first one whose *)
(* upper bound is not exceeded wins.  getWeightForLengthByBirthDate returns *)
(* the birth-to-2-years table of the sex for an age of at most 24 months    *)
(* and the 2-to-5-years table for an age above 24 and at most 60 months;    *)
(* getWeightForAgeDataset returns the by-week table for an age of at most   *)
(* 13 * 7 days and the by-month table for an older age of at most 5 * 365   *)
(* days.                                                                    *)
C11_FirstBracketWins ==
    /\ (Done /\ op = "getWeightForLengthByBirthDate") =>
        /\ AgeMonths <= 24 =>
               selected = ForSex("weightForLengthGirlBirthTo2Years",
                                 "weightForLengthBoyBirthTo2Years")
        /\ (24 < AgeMonths /\ AgeMonths <= 60) =>
               selected = ForSex("weightForLengthGirl2To5Years", "weightForLengthBoy2To5Years")
    /\ (Done /\ op = "getWeightForAgeDataset") =>
        /\ AgeDays <= 13 * 7 =>
               /\ selected = ForSex("weightForAgeGirl0To13Weeks", "weightForAgeBoy0To13Weeks")
               /\ result.message = TypeLength
        /\ (13 * 7 < AgeDays /\ AgeDays <= 5 * 365) =>
               /\ selected = ForSex("weightForAgeGirl0To5Years", "weightForAgeBoy0To5Years")
               /\ result.message = TypeHeight

\* A boy on the last day of the by-week bracket still gets the by-week table.
C11_Witness ==
    /\ Done /\ op = "getWeightForAgeDataset" /\ gender = Male
    /\ AgeDays = 13 * 7
    /\ selected = Shipped("weightForAgeBoy0To13Weeks")
    /\ result.message = TypeLength

-----------------------------------------------------------------------------
(* C12: a date of birth after the evaluation date resolves no dataset:      *)
(* every selector returns undefined and the evaluations do not return a     *)
(* status.  The code has no lower bound on the age: a negative age passes   *)
(* every "age <= bound" test of the first bracket.                          *)
C12_BirthAfterEvaluation ==
    (Done /\ birthDate > clock[1]) =>
        /\ selected = NoTable
        /\ result.kind # "ok"
        /\ op \in DatasetSelectors => result = Value(Undefined)

-----------------------------------------------------------------------------
(* C13: calculateMonthsSinceBirth returns yearsDiff * 12 + monthsDiff,      *)
(* minus one exactly when the day of the month of the evaluation date is    *)
(* earlier than the day of the month of birth.  For a birth date not after  *)
(* the evaluation date it is not negative, and it does not decrease when    *)
(* the evaluation date advances by a day.                                   *)
C13_MonthsSinceBirth ==
    (Done /\ op = "calculateMonthsSinceBirth") =>
        LET today == clock[1]
            months == (getFullYear(today) - getFullYear(birthDate)) * 12
                          + (getMonth(today) - getMonth(birthDate))
            early == getDate(today) < getDate(birthDate)
        IN  /\ early => result = Value(months - 1)
            /\ ~early => result = Value(months)
            /\ birthDate <= today =>
                   /\ result.status >= 0
                   /\ calculateMonthsSinceBirth(birthDate, today + 1) >= result.status

\* Born on the leap day, evaluated on 28 February of the next year: eleven
\* months, the twelfth not yet complete.
C13_Witness ==
    /\ Done /\ op = "calculateMonthsSinceBirth"
    /\ birthDate = DateOf(2024, 1, 29) /\ clock[1] = DateOf(2025, 1, 28)
    /\ result = Value(11)

-----------------------------------------------------------------------------
(* C14: calculateWeeksBetweenDates is the floor of the elapsed time over a  *)
(* week: the child is w weeks old from day 7w up to, but excluding, day     *)
(* 7(w + 1).                                                                *)
C14_WeeksFloor ==
    (Done /\ op = "calculateWeeksBetweenDates") =>
        LET w == result.status
            elapsed == clock[1] - birthDate
        IN  7 * w <= elapsed /\ elapsed < 7 * (w + 1)

\* On the last day of the thirteenth week the child is still 12 weeks old.
C14_Witness ==
    /\ Done /\ op = "calculateWeeksBetweenDates"
    /\ clock[1] - birthDate = 90
    /\ result = Value(12)

-----------------------------------------------------------------------------
(* Vocabulary of the properties on the presentation state *)

MarkerOps ==
    {"lengthOrHeightForAgeD3jsChartOptionsAtom", "useD3JsWeightForAge", "useD3JsWeightForLength"}

Axes == {AxisWeeks, AxisMonths, AxisLength}

\* A marker was drawn.
MarkerDrawn == Done /\ op \in MarkerOps /\ result.kind = "value" /\ result.message \in Axes

AtomOps ==
    AtomOps1 \cup {"lengthOrHeightEvaluationStatusAtom", "lengthOrHeightDatasetAtom",
                   "lengthOrHeightForAgeD3jsChartOptionsAtom", "weightStatusAtom"}

-----------------------------------------------------------------------------
(* C15: the marker of each chart is placed at the value, in the unit of the *)
(* chart's x-axis, by which the evaluation resolves the row: the age in     *)
(* weeks on a chart by week, the age in months on a chart by month, the     *)
(* length on the weight-for-length chart.  Stated for calls during which    *)
(* the date does not change.  The length-for-age chart, whose axis is in    *)
(* weeks, gets the age in months.                                           *)
C15_MarkerAtEvaluationKey ==
    (MarkerDrawn /\ SteadyClock) =>
        /\ result.message = AxisWeeks => result.status = AgeWeeks
        /\ result.message = AxisMonths => result.status = AgeMonths
        /\ result.message = AxisLength => result.status = lengthArg

-----------------------------------------------------------------------------
(* C16: for every submitted request no derived atom throws, and a failed    *)
(* evaluation is held by its status atom as an error Result.  The type atom *)
(* calls getLengthOrHeightForAgeType outside any try, and the dataset and   *)
(* chart-options atoms read the type atom.                                  *)
C16_NoAtomThrows ==
    (Done /\ op \in AtomOps) =>
        /\ result.kind # "error"
        /\ op \in {"lengthOrHeightEvaluationStatusAtom", "weightStatusAtom"}
               => result.kind \in {"Result.ok", "Result.err"}

-----------------------------------------------------------------------------
(* Vocabulary of the properties on failures *)

EvaluationsByBirthDate == {"evaluateWeightSinceBirth", "evaluateLengthOrHeightForAge"}

\* The messages thrown when no dataset is selected for the age and sex.
NoDatasetMessages == {ErrNoDataForBirthDate, ErrAgeExceeds, ErrNoLengthData, ErrNoHeightData}

\* The messages thrown when a dataset is selected and no row is resolved.
NoEntryMessages == {ErrNoDataForLength, ErrNoDataForHeight}

-----------------------------------------------------------------------------
(* C17: a failed evaluation tells which failure occurred.  The message of   *)
(* the thrown Error is one of the no-dataset messages exactly when no       *)
(* dataset was selected, and one of the no-entry messages exactly when a    *)
(* dataset was selected and no row resolved in it; no message belongs to    *)
(* both kinds.                                                              *)
C17_FailureKindsDistinct ==
    /\ NoDatasetMessages \cap NoEntryMessages = {}
    /\ (Done /\ op \in EvaluationsByBirthDate /\ result.kind = "error") =>
        /\ result.message \in NoDatasetMessages \cup NoEntryMessages
        /\ result.message \in NoDatasetMessages <=> selected = NoTable
        /\ result.message \in NoEntryMessages <=> (selected # NoTable /\ IsNull(entry))
    /\ (Done /\ op \in EvaluationsByBirthDate /\ result.kind = "ok") =>
        (selected # NoTable /\ ~IsNull(entry))

\* A by-week table was selected, and it has no row for the week of the child.
C17_Witness ==
    /\ Done /\ op = "evaluateLengthOrHeightForAge"
    /\ selected = Shipped("lengthForAgeGirl0To13Weeks") /\ IsNull(entry)
    /\ result = Throw(ErrNoDataForLength)

-----------------------------------------------------------------------------
(* C18: the result of an evaluation is a function of the measurement, the   *)
(* date of birth, the sex and one evaluation date: whatever the clock does  *)
(* during the call, the result is the one the evaluation gives on one of    *)
(* the dates the clock showed.  evaluateLengthOrHeightForAge reads the      *)
(* clock three times, for the type, for the dataset and for the row.        *)
C18_OneEvaluationDate ==
    (Done /\ op = "evaluateLengthOrHeightForAge") =>
        \E i \in 1..Len(clock) :
            result = evaluateLengthOrHeightForAge(measurement, birthDate, gender,
                                                  <<clock[i], clock[i], clock[i]>>)

-----------------------------------------------------------------------------
-----------------------------------------------------------------------------
(* LMS vocabulary *)

LMSDone(o) == Done /\ op = o

\* x/m of the z-score call, and 1 + l*s*z of the weight call.
RatioXM == Over(measurement, entryArg[1].m)

InnerValue == Plus(Whole(1), Times(Times(entryArg[1].l, entryArg[1].s), measurement))

-----------------------------------------------------------------------------
(* C20: calculateZScoreFromLMS returns not-a-number whenever x/m <= 0, and  *)
(* calculateWeightFromLMS returns not-a-number whenever 1 + l*s*z <= 0 on   *)
(* the branch of a non-zero lambda; the invalid result is never zero or     *)
(* another number.                                                          *)
C20_InvalidIsNaN ==
    /\ (LMSDone("calculateZScoreFromLMS") /\ LeZero(RatioXM)) => result.status = NaN
    /\ (LMSDone("calculateWeightFromLMS") /\ ~AbsBelow1e10(entryArg[1].l)
           /\ LeZero(InnerValue)) => result.status = NaN

-----------------------------------------------------------------------------
(* C21: the two LMS functions are inverses.  For the (l, m, s) of shipped   *)
(* rows and z in -3..3, the z-score of the weight of z is z, also on the    *)
(* branch of a lambda below 1e-10, and the weight of z = 0 is m.            *)
C21_RoundTrip ==
    LMSDone("roundTrip") =>
        /\ result.status = measurement
        /\ measurement = Whole(0) => entry[1] = entryArg[1].m

\* The round trip of z = -3 through a weight that is no fraction, on a
\* weight-for-length row, and of z = 3 on the branch of lambda 0.
C21_Witness ==
    /\ LMSDone("roundTrip")
    /\ IsPower(entry[1])
    /\ \/ measurement = Whole(-3) /\ entryArg[1].l = Rat(-3833, 10000)
       \/ measurement = Whole(3) /\ entryArg[1].l = Whole(0)

-----------------------------------------------------------------------------
(* Chart vocabulary *)

ChartDone(o) == Done /\ op = o

\* The container's children before the call that has just ended, for a call
\* that threw.
Threw(msg) == result.kind = "error" /\ result.message = msg

-----------------------------------------------------------------------------
(* C22: d3js_weight_for_length throws "Data array cannot be empty" for      *)
(* empty data and 'Container element "..." not found' for a selector that   *)
(* matches nothing, and in both cases leaves the content of the container   *)
(* as it was.                                                               *)
C22_ValidationBeforeClear ==
    [][(pc = "ready" /\ op = "d3js_weight_for_length") =>
          /\ Len(heap) = 0 => (result' = Throw(ErrEmptyData) /\ dom' = dom)
          /\ (Len(heap) > 0 /\ ~ContainerFound(entryArg[1].container)) =>
                (result' = Throw(ErrNoContainer) /\ dom' = dom)]_vars

\* A call with empty data, and one with a selector that matches nothing, has
\* thrown on a container that holds a chart drawn before.
C22_Witness ==
    /\ ChartDone("d3js_weight_for_length")
    /\ dom # <<>> /\ dom[1].tag = "svg"
    /\ \/ Len(heap) = 0 /\ Threw(ErrEmptyData) /\ ContainerFound(entryArg[1].container)
       \/ Threw(ErrNoContainer)

-----------------------------------------------------------------------------
(* C23 vocabulary: the chart a call of d3js_weight_for_length has drawn *)

ChartDrawn == ChartDone("d3js_weight_for_length") /\ result.kind = "value"

Given(o, k) == k \in DOMAIN o

HasClass(nodes, class) == \E i \in 1..Len(nodes) : nodes[i].class = class

-----------------------------------------------------------------------------
(* C23: options the caller omits take their defaults (width 800, height     *)
(* 600, grid and legend shown), options the caller supplies override only   *)
(* themselves: a partial colors or margins object replaces just the keys it *)
(* names, and the legend and the grid are drawn exactly when showLegend /   *)
(* showGrid is true.                                                        *)
C23_OptionDefaults ==
    ChartDrawn =>
        LET options == entryArg[1]
            svg == dom[1]
            g == svg.kids[1]
            colors == Prop(options, "colors")
            margins == Prop(options, "margins")
        IN  /\ svg.attr.width = (IF Given(options, "width") THEN options.width ELSE 800)
            /\ svg.attr.height = (IF Given(options, "height") THEN options.height ELSE 600)
            /\ HasClass(g.kids, "grid") <=>
                  (IF Given(options, "showGrid") THEN options.showGrid ELSE TRUE)
            /\ HasClass(svg.kids, "legend") <=>
                  (IF Given(options, "showLegend") THEN options.showLegend ELSE TRUE)
            /\ \A i \in 1..Len(g.kids) :
                  g.kids[i].tag = "path" =>
                      g.kids[i].attr.stroke =
                          (IF Given(colors, g.kids[i].class) THEN colors[g.kids[i].class]
                           ELSE DEFAULT_OPTIONS.colors[g.kids[i].class])
            /\ g.attr.left = (IF Given(margins, "left") THEN margins.left ELSE 80)
            /\ g.attr.top = (IF Given(margins, "top") THEN margins.top ELSE 60)

\* A chart drawn with two colours and one margin given and the grid switched
\* off: the other colours and margins are the defaults.
C23_Witness ==
    /\ ChartDrawn
    /\ Given(entryArg[1], "colors") /\ Given(entryArg[1], "margins")
    /\ Given(entryArg[1], "showGrid") /\ ~entryArg[1].showGrid
    /\ ~Given(entryArg[1], "width")
    /\ dom[1].kids[1].attr.top = 60
    /\ \E i \in 1..Len(dom[1].kids[1].kids) :
          dom[1].kids[1].kids[i].class = "sd3" /\ dom[1].kids[1].kids[i].attr.stroke = "#d73027"

-----------------------------------------------------------------------------
(* C24: whenever a dataset is selected for a child's age, the by-age lookup *)
(* finds a row in it.  For a child born on or before the day of the         *)
(* evaluation, with the clock on one day, the table getLengthForAgeDataset  *)
(* returns has a row for the child's weeks, the table getHeightForAgeDataset*)
(* returns has a row for the child's months, and evaluateLengthHeightForAge *)
(* returns a status whenever it has selected a table.                       *)
C24_SelectedDatasetHasEntry ==
    (Done /\ SteadyClock /\ AgeDays >= 0 /\ selected # NoTable) =>
        /\ op = "getLengthForAgeDataset" =>
              ~IsNull(findLengthForAgeEntryByDateOfBirth(birthDate, Table(selected), clock[1]))
        /\ op = "getHeightForAgeDataset" =>
              ~IsNull(findHeightForAgeEntryByDateOfBirth(birthDate, Table(selected), clock[1]))
        /\ op = "evaluateLengthHeightForAge" => result.kind = "ok"

-----------------------------------------------------------------------------
(* C25: the tooltip rectangle calculateTooltipPosition returns lies wholly  *)
(* inside the chart area, for every circle position and every inner size:   *)
(* 0 <= tooltipX, tooltipX + tooltipWidth <= innerWidth, 0 <= tooltipY and  *)
(* tooltipY + tooltipHeight <= innerHeight.                                 *)
C25_TooltipInsideChart ==
    (Done /\ op = "calculateTooltipPosition") =>
        LET t == result.status
        IN  /\ 0 <= t.tooltipX
            /\ t.tooltipX + t.tooltipWidth <= entryArg[1].innerWidth
            /\ 0 <= t.tooltipY
            /\ t.tooltipY + t.tooltipHeight <= entryArg[1].innerHeight

-----------------------------------------------------------------------------
(* C26, C27 vocabulary: the elements of the container *)
Svgs == SelectSeq(dom, LAMBDA n : n.tag = "svg")
Circles == SelectSeq(Descendants(dom), LAMBDA n : n.tag = "circle")
Tooltips ==
    SelectSeq(Descendants(dom),
              LAMBDA n : n.tag = "g" /\ \E i \in 1..Len(n.kids) : n.kids[i].tag = "rect")
OfClass(nodes, class) == SelectSeq(nodes, LAMBDA n : n.class = class)
PointOp == op \in {"d3js_weight_length_point", "d3js_growth_chart_point"}
PointClasses == {"weight-length-data-point", "growth-chart-data-point", "my-point"}
TooltipClasses == {"weight-length-tooltip", "growth-chart-tooltip", "my-tooltip"}

-----------------------------------------------------------------------------
(* C26 as stated: after any sequence of chart draws and point additions on  *)
(* one container, a container that holds a chart holds exactly one svg, and *)
(* the chart holds at most one data-point circle and at most one tooltip.   *)
C26_OneMarker ==
    Len(Svgs) >= 1 => (Len(Svgs) = 1 /\ Len(Circles) <= 1 /\ Len(Tooltips) <= 1)

(* C26 amended: the container holds at most one svg, and exactly one, with  *)
(* no marker in it, when a chart draw has just succeeded; the chart holds   *)
(* at most one data-point circle of each point class and at most one        *)
(* tooltip of each tooltip class, the classes being those of                *)
(* d3js_weight_length_point and the pointClass / tooltipClass of            *)
(* d3js_growth_chart_point; every circle and tooltip has one of them.       *)
C26_OneMarkerPerClass ==
    /\ Len(Svgs) <= 1
    /\ (ChartDone("d3js_weight_for_length") /\ result.kind = "value") =>
          (Len(Svgs) = 1 /\ Circles = <<>> /\ Tooltips = <<>>)
    /\ \A c \in PointClasses : Len(OfClass(Circles, c)) <= 1
    /\ \A c \in TooltipClasses : Len(OfClass(Tooltips, c)) <= 1
    /\ \A i \in 1..Len(Circles) : Circles[i].class \in PointClasses
    /\ \A i \in 1..Len(Tooltips) : Tooltips[i].class \in TooltipClasses

\* A point call has drawn its marker on a chart that holds the markers of all
\* three classes: each of them once.
C26_Witness ==
    /\ Done /\ PointOp /\ result.kind = "value"
    /\ Len(Circles) = 3 /\ Len(Tooltips) = 3
    /\ Circles[3].class = "growth-chart-data-point"

-----------------------------------------------------------------------------
(* C27: a point can only be added after a chart was created in the same     *)
(* container.  d3js_weight_length_point and d3js_growth_chart_point throw   *)
(* "Data array cannot be empty" for empty data; for data and a container    *)
(* that holds no chart they throw "No existing chart found. ..."; a call    *)
(* that throws leaves the container as it was; and a call that draws a      *)
(* marker was made on a container that held a chart.                        *)
C27_PointNeedsChart ==
    [][(pc = "ready" /\ PointOp) =>
          /\ Len(heap) = 0 => result' = Throw(ErrEmptyData)
          /\ (/\ Len(heap) > 0
              /\ ContainerFound(entryArg[1].chartOptions.container)
              /\ Svgs = <<>>) =>
                result' = Throw(IF op = "d3js_weight_length_point"
                                THEN ErrNoChartWeightLength ELSE ErrNoChart)
          /\ result'.kind = "error" => dom' = dom
          /\ result'.kind = "value" => Len(Svgs) = 1]_vars

\* A point call has thrown for want of a chart, on a container that holds a
\* paragraph and no chart.
C27_Witness ==
    /\ Done /\ PointOp
    /\ Threw(IF op = "d3js_weight_length_point" THEN ErrNoChartWeightLength ELSE ErrNoChart)
    /\ dom = <<Node("p", "", <<>>, <<>>)>>

-----------------------------------------------------------------------------
(* C28 vocabulary *)
Submitted == Done /\ op = "onSubmit"
RequestAtoms ==
    {"weightEvaluationRequestAtom", "lengthOrHeightEvaluationRequestAtom",
     "weightForAgeEvaluationRequestAtom"}

-----------------------------------------------------------------------------
-----------------------------------------------------------------------------
(* C29 vocabulary: the shipped tables by the sex they describe, and the     *)
(* weight-for-age tables by the kind of their rows.                         *)
GirlTables ==
    {"weightForLengthGirlBirthTo2Years", "weightForLengthGirl2To5Years",
     "lengthForAgeGirl0To13Weeks", "heightForAgeGirl0To2Years", "heightForAgeGirl2To5Years",
     "weightForAgeGirl0To13Weeks", "weightForAgeGirl0To5Years"}
BoyTables ==
    {"weightForLengthBoyBirthTo2Years", "weightForLengthBoy2To5Years",
     "lengthForAgeBoy0To13Weeks", "heightForAgeBoy0To2Years", "heightForAgeBoy2To5Years",
     "weightForAgeBoy0To13Weeks", "weightForAgeBoy0To5Years"}
WeightForAgeByWeek == {"weightForAgeGirl0To13Weeks", "weightForAgeBoy0To13Weeks"}
WeightForAgeByMonth == {"weightForAgeGirl0To5Years", "weightForAgeBoy0To5Years"}

-----------------------------------------------------------------------------
(* C29: every selector returns a table of the requested sex: whenever a     *)
(* call has selected a table, it is a girls' table for a Female request and *)
(* a boys' table for a Male request, at every age; and the dataset          *)
(* getWeightForAgeDataset returns is tagged Length exactly when its table   *)
(* has rows by week, and Height exactly when it has rows by month.          *)
C29_TableOfRequestedSex ==
    (Done /\ selected # NoTable) =>
        /\ gender = Female => selected.name \in GirlTables
        /\ gender = Male => selected.name \in BoyTables
        /\ op = "getWeightForAgeDataset" =>
              /\ result.message = TypeLength <=> selected.name \in WeightForAgeByWeek
              /\ result.message = TypeHeight <=> selected.name \in WeightForAgeByMonth

\* getHeightForAgeDataset has returned the boys' table of 2 to 5 years for a
\* boy.
C29_Witness ==
    /\ Done /\ op = "getHeightForAgeDataset" /\ gender = Male
    /\ selected = Shipped("heightForAgeBoy2To5Years")

-----------------------------------------------------------------------------
(* C30: a status is returned only for a measurement that really lies in     *)
(* that band of the resolved row: BelowSd3Neg only for a measurement less   *)
(* than sd3neg, AboveSd3 only for one greater than or equal to sd3, a band  *)
(* between two boundaries only for one at or above the lower and below the  *)
(* upper; so a not-a-number measurement is never classified into any band.  *)
C30_StatusWithinBand ==
    Classified =>
        LET sds == Sds(entry[1])
            k == Rank(result.status)
        IN  /\ k <= NumSd => Lt(measurement, sds[k])
            /\ k > 1 => Le(sds[k - 1], measurement)
            /\ ~IsNaN(measurement)

====
